---- MODULE Spec2Model ----
(***************************************************************************)
(* CipherLending: the on-chain ledger of borrower requests, lender offers  *)
(* and loans, with the encrypted score comparison bookkeeping.             *)
(*                                                                         *)
(* Every external function of the contract is one action.  A transaction   *)
(* is atomic: a failed require reverts it, and the state it leaves is the  *)
(* state before the call.  Ids are zero-based in the contract and the      *)
(* arrays are TLA+ sequences, so the record with id i is element i + 1.    *)
(***************************************************************************)
EXTENDS Integers, Sequences, FiniteSets, TLC

VARIABLES borrowerRequests, lenderOffers, loans, nextLoanId,
          comparisonResults, acl, ciphertexts, blockTimestamp,
          acceptedOffers, lastCall,
          localStorage, transactions, handler, addedIds

vars == <<borrowerRequests, lenderOffers, loans, nextLoanId,
          comparisonResults, acl, ciphertexts, blockTimestamp,
          acceptedOffers, lastCall,
          localStorage, transactions, handler, addedIds>>

\* The contract storage and the coprocessor state a transaction can write.
ledger == <<borrowerRequests, lenderOffers, loans, nextLoanId,
            comparisonResults, acl, ciphertexts, acceptedOffers>>

\* The state of the browser tab of a user: the stored transaction history
\* of the connected address, and for each component that uses the hook
\* useTransactionHistory its React state and its running handler.
browser == <<localStorage, transactions, handler, addedIds>>

-----------------------------------------------------------------------------
\* Bounds of the exploration.
MaxRecords == 4

\* A timestamp is the pair <<hi, lo>> of its 16-bit limbs, hi * 2^16 + lo:
\* the tool's integers are narrower than 2^32.
Limb == 65536

\* Upper limits of the require statements.
MaxTerm == 120
MaxApr == 10000

\* Timestamp of the block that deploys the contract (1700000000).
StartTime == <<25939, 61696>>

\* Principals: msg.sender of a transaction; THIS is address(this).
Principals == {"alice", "bob"}
THIS == "contract"

\* Inputs of the transactions: the values of the end-to-end scenario, and
\* for each require an input that fails it.
Scores == {750}
MinScores == {700}
Values == {0, 1}

\* <<amount, term, proofOk>> of submitBorrowerRequest.
BorrowInputs == {<<5000, 12, TRUE>>, <<0, 12, TRUE>>, <<5000, 0, TRUE>>,
                 <<5000, 12, FALSE>>}

\* <<amount, apr, term>> of submitLenderOffer.
OfferInputs == {<<4000, 500, 6>>, <<0, 500, 6>>, <<4000, 0, 6>>,
                <<4000, 500, 0>>}

\* Revert reasons.  OK is the result of a transaction that did not revert.
OK == "ok"
ErrAmount == "Amount must be greater than 0"
ErrTerm == "Term must be between 1-120 months"
ErrProof == "Invalid input proof"
ErrInvalidRequest == "Invalid request ID"
ErrInactiveRequest == "Request is not active"
ErrApr == "APR must be between 1-10000 basis points"
ErrInvalidOffer == "Invalid offer ID"
ErrInactiveOffer == "Offer is not active"
ErrRequestClosed == "Borrower request is not active"
ErrNotBorrower == "Only borrower can accept offer"
ErrValue == "Do not send ETH directly"

-----------------------------------------------------------------------------
\* Handles of the encrypted-value service.  A handle is a number that names
\* a ciphertext; the handle of a computed value is a function of the
\* operation and its operands.  0 is the uninitialised handle.
EmptyHandle == 0

inputHandle(n) == n

trivialHandle(v) == 1000 + v

geHandle(lhs, rhs) == 100000 + (lhs * 10000) + rhs

\* Plaintext behind a handle (the encrypted boolean is 1 or 0).
plaintextOf(h) == ciphertexts[h]

\* As fheGe, but the comparison is strict (FHE.gt).
fheGe_strict(a, b) == IF a > b THEN 1 ELSE 0

\* FHE.ge on plaintexts.
fheGe(a, b) == IF a >= b THEN 1 ELSE 0

\* FHE.allow / FHE.allowThis: the grant of decrypt capability.
allow(grants, h, p) == grants \cup {<<h, p>>}

isAllowed(h, p) == <<h, p>> \in acl

-----------------------------------------------------------------------------
\* Array access by zero-based id.
requestAt(id) == borrowerRequests[id + 1]

offerAt(id) == lenderOffers[id + 1]

loanAt(id) == loans[id + 1]

getBorrowerRequestsCount == Len(borrowerRequests)

getLenderOffersCount == Len(lenderOffers)

\* As getLoansCount, but the counter nextLoanId is returned.
getLoansCount_nextLoanId == nextLoanId

getLoansCount == Len(loans)

\* As pushedId, but the id is the length after the push: ids start at 1.
pushedId_oneBased(array) == Len(array) + 1

\* array.push(record); id = array.length - 1: the id of a pushed record is
\* the length of the array before the push.
pushedId(array) == Len(array)

\* As reverted, but the authorisation failure is reported without reverting.
reverted_exceptNotBorrower(err) == err \notin {OK, ErrNotBorrower}

\* A failed require reverts the transaction: none of its writes persist.
reverted(err) == err # OK

\* The call a step executed and its outcome.
call(op, sender, id, amount, apr, term, minScore, value, proofOk, err, ret) ==
  [op |-> op, sender |-> sender, id |-> id, amount |-> amount, apr |-> apr,
   term |-> term, minScore |-> minScore, value |-> value,
   proofOk |-> proofOk, err |-> err, ret |-> ret]

\* As toUint32, but the cast keeps 16 bits.
toUint32_low16(t) == <<0, t[2]>>

\* uint32(block.timestamp)
toUint32(t) == <<t[1] % Limb, t[2]>>

-----------------------------------------------------------------------------
\* Components that call useTransactionHistory: each has a hook instance.
Instances == {"LoanDetailsDialog", "LendPanel"}

\* A handler that is not running.
noHandler == [pc |-> "idle", captured |-> <<>>, txId |-> 0]

-----------------------------------------------------------------------------
Init ==
  /\ borrowerRequests = <<>>
  /\ lenderOffers = <<>>
  /\ loans = <<>>
  /\ nextLoanId = 0
  /\ comparisonResults = <<>>
  /\ acl = {}
  /\ ciphertexts = <<>>
  /\ blockTimestamp = StartTime
  /\ acceptedOffers = <<>>
  /\ lastCall = call("deploy", THIS, 0, 0, 0, 0, 0, 0, TRUE, OK, 0)
  /\ localStorage = <<>>
  /\ transactions = [i \in Instances |-> <<>>]
  /\ handler = [i \in Instances |-> noHandler]
  /\ addedIds = {}

-----------------------------------------------------------------------------
\* As submitBorrowerRequestRevert, but the upper limit of term is exclusive.
submitBorrowerRequestRevert_termExclusive(amount, term, proofOk) ==
  IF ~(amount > 0) THEN ErrAmount
  ELSE IF ~(term > 0 /\ term < MaxTerm) THEN ErrTerm
  ELSE IF ~proofOk THEN ErrProof
  ELSE OK

\* submitBorrowerRequest: the requires and FHE.fromExternal, in order.
submitBorrowerRequestRevert(amount, term, proofOk) ==
  IF ~(amount > 0) THEN ErrAmount
  ELSE IF ~(term > 0 /\ term <= MaxTerm) THEN ErrTerm
  ELSE IF ~proofOk THEN ErrProof
  ELSE OK

\* As newBorrowerRequest, but the request is created closed.
newBorrowerRequest_inactive(sender, score, amount, term) ==
  [borrower |-> sender, encryptedScore |-> score, amount |-> amount,
   term |-> term, isActive |-> FALSE]

\* As newBorrowerRequest, but amount and term are stored in each other's
\* field.
newBorrowerRequest_swapped(sender, score, amount, term) ==
  [borrower |-> sender, encryptedScore |-> score, amount |-> term,
   term |-> amount, isActive |-> TRUE]

newBorrowerRequest(sender, score, amount, term) ==
  [borrower |-> sender, encryptedScore |-> score, amount |-> amount,
   term |-> term, isActive |-> TRUE]

submitBorrowerRequest(sender, plainScore, amount, term, proofOk, now) ==
  LET err == submitBorrowerRequestRevert(amount, term, proofOk)
      score == inputHandle(Len(borrowerRequests) + 1)
      requestId == pushedId(borrowerRequests)
  IN /\ blockTimestamp' = now
     /\ UNCHANGED browser
     /\ IF reverted(err)
        THEN /\ UNCHANGED ledger
             /\ lastCall' = call("submitBorrowerRequest", sender, 0, amount,
                                 0, term, 0, 0, proofOk, err, 0)
        ELSE /\ ciphertexts' = (score :> plainScore) @@ ciphertexts
             /\ acl' = allow(allow(acl, score, THIS), score, sender)
             /\ borrowerRequests' =
                  Append(borrowerRequests,
                         newBorrowerRequest(sender, score, amount, term))
             /\ lastCall' = call("submitBorrowerRequest", sender, 0, amount,
                                 0, term, 0, 0, proofOk, err, requestId)
             /\ UNCHANGED <<lenderOffers, loans, nextLoanId,
                            comparisonResults, acceptedOffers>>

-----------------------------------------------------------------------------
\* As checkScoreMatchRevert, without the require on request.isActive.
checkScoreMatchRevert_noActiveCheck(requestId) ==
  IF ~(requestId < Len(borrowerRequests)) THEN ErrInvalidRequest
  ELSE OK

\* checkScoreMatch: the two requires, in order.
checkScoreMatchRevert(requestId) ==
  IF ~(requestId < Len(borrowerRequests)) THEN ErrInvalidRequest
  ELSE IF ~requestAt(requestId).isActive THEN ErrInactiveRequest
  ELSE OK

\* As getComparisonResult, but the mapping has no level for the caller: the
\* entry of any principal for the request and threshold is returned.
getComparisonResult_anyCaller(requestId, minScore, caller) ==
  LET keys == {k \in DOMAIN comparisonResults :
                 k[1] = requestId /\ k[2] = minScore}
  IN IF keys # {} THEN comparisonResults[CHOOSE k \in keys : TRUE]
     ELSE EmptyHandle

\* comparisonResults[requestId][minScore][caller]; an unwritten slot of a
\* mapping reads as zero.
getComparisonResult(requestId, minScore, caller) ==
  IF <<requestId, minScore, caller>> \in DOMAIN comparisonResults
  THEN comparisonResults[<<requestId, minScore, caller>>]
  ELSE EmptyHandle

\* As storeComparison, but the caller is not part of the key.
storeComparison_noCaller(results, requestId, minScore, caller, h) ==
  (<<requestId, minScore, THIS>> :> h) @@ results

\* As storeComparison, but the write replaces the whole entry of the request
\* and threshold: the results of the other callers are lost.
storeComparison_dropOthers(results, requestId, minScore, caller, h) ==
  (<<requestId, minScore, caller>> :> h)
    @@ [k \in {k \in DOMAIN results :
                 ~(k[1] = requestId /\ k[2] = minScore)} |-> results[k]]

\* comparisonResults[requestId][minScore][msg.sender] = comparisonResult
storeComparison(results, requestId, minScore, caller, h) ==
  (<<requestId, minScore, caller>> :> h) @@ results

\* As grantComparison, but the borrower of the request is granted the
\* result too.
grantComparison_borrowerToo(grants, comparisonResult, sender, request) ==
  allow(allow(allow(grants, comparisonResult, THIS), comparisonResult,
              sender),
        comparisonResult, request.borrower)

\* As grantComparison, but the caller is granted the score of the request
\* as well as the result.
grantComparison_scoreToo(grants, comparisonResult, sender, request) ==
  allow(allow(allow(grants, comparisonResult, THIS), comparisonResult,
              sender),
        request.encryptedScore, sender)

\* As grantComparison, without the grant to the caller.
grantComparison_thisOnly(grants, comparisonResult, sender, request) ==
  allow(grants, comparisonResult, THIS)

\* FHE.allowThis(comparisonResult); FHE.allow(comparisonResult, msg.sender)
grantComparison(grants, comparisonResult, sender, request) ==
  allow(allow(grants, comparisonResult, THIS), comparisonResult, sender)

checkScoreMatch(sender, requestId, minScore, now) ==
  LET err == checkScoreMatchRevert(requestId)
      request == requestAt(requestId)
      minScoreEncrypted == trivialHandle(minScore)
      comparisonResult == geHandle(request.encryptedScore, minScoreEncrypted)
  IN /\ blockTimestamp' = now
     /\ UNCHANGED browser
     /\ IF reverted(err)
        THEN /\ UNCHANGED ledger
             /\ lastCall' = call("checkScoreMatch", sender, requestId, 0, 0,
                                 0, minScore, 0, TRUE, err, EmptyHandle)
        ELSE /\ ciphertexts' =
                  (comparisonResult :>
                     fheGe(plaintextOf(request.encryptedScore), minScore))
                  @@ (minScoreEncrypted :> minScore) @@ ciphertexts
             /\ comparisonResults' =
                  storeComparison(comparisonResults, requestId, minScore,
                                  sender, comparisonResult)
             /\ acl' = grantComparison(acl, comparisonResult, sender,
                                       request)
             /\ lastCall' = call("checkScoreMatch", sender, requestId, 0, 0,
                                 0, minScore, 0, TRUE, err, comparisonResult)
             /\ UNCHANGED <<borrowerRequests, lenderOffers, loans,
                            nextLoanId, acceptedOffers>>

-----------------------------------------------------------------------------
\* As submitLenderOfferRevert, but the upper limit of apr is exclusive.
submitLenderOfferRevert_aprExclusive(borrowerRequestId, amount, apr, term) ==
  IF ~(borrowerRequestId < Len(borrowerRequests)) THEN ErrInvalidRequest
  ELSE IF ~requestAt(borrowerRequestId).isActive THEN ErrInactiveRequest
  ELSE IF ~(amount > 0) THEN ErrAmount
  ELSE IF ~(apr > 0 /\ apr < MaxApr) THEN ErrApr
  ELSE IF ~(term > 0 /\ term <= MaxTerm) THEN ErrTerm
  ELSE OK

\* As submitLenderOfferRevert, without the require on request.isActive.
submitLenderOfferRevert_noActiveCheck(borrowerRequestId, amount, apr, term) ==
  IF ~(borrowerRequestId < Len(borrowerRequests)) THEN ErrInvalidRequest
  ELSE IF ~(amount > 0) THEN ErrAmount
  ELSE IF ~(apr > 0 /\ apr <= MaxApr) THEN ErrApr
  ELSE IF ~(term > 0 /\ term <= MaxTerm) THEN ErrTerm
  ELSE OK

\* As submitLenderOfferRevert, but the request is looked at only when the
\* id is in range: an id out of range passes.
submitLenderOfferRevert_noRangeCheck(borrowerRequestId, amount, apr, term) ==
  IF /\ borrowerRequestId < Len(borrowerRequests)
     /\ ~requestAt(borrowerRequestId).isActive THEN ErrInactiveRequest
  ELSE IF ~(amount > 0) THEN ErrAmount
  ELSE IF ~(apr > 0 /\ apr <= MaxApr) THEN ErrApr
  ELSE IF ~(term > 0 /\ term <= MaxTerm) THEN ErrTerm
  ELSE OK

\* As submitLenderOfferRevert, but a request takes one open offer at a time.
submitLenderOfferRevert_oneOffer(borrowerRequestId, amount, apr, term) ==
  IF ~(borrowerRequestId < Len(borrowerRequests)) THEN ErrInvalidRequest
  ELSE IF ~requestAt(borrowerRequestId).isActive THEN ErrInactiveRequest
  ELSE IF \E i \in DOMAIN lenderOffers :
            /\ lenderOffers[i].borrowerRequestId = borrowerRequestId
            /\ lenderOffers[i].isActive
       THEN ErrInactiveRequest
  ELSE IF ~(amount > 0) THEN ErrAmount
  ELSE IF ~(apr > 0 /\ apr <= MaxApr) THEN ErrApr
  ELSE IF ~(term > 0 /\ term <= MaxTerm) THEN ErrTerm
  ELSE OK

\* submitLenderOffer: the five requires, in order.
submitLenderOfferRevert(borrowerRequestId, amount, apr, term) ==
  IF ~(borrowerRequestId < Len(borrowerRequests)) THEN ErrInvalidRequest
  ELSE IF ~requestAt(borrowerRequestId).isActive THEN ErrInactiveRequest
  ELSE IF ~(amount > 0) THEN ErrAmount
  ELSE IF ~(apr > 0 /\ apr <= MaxApr) THEN ErrApr
  ELSE IF ~(term > 0 /\ term <= MaxTerm) THEN ErrTerm
  ELSE OK

\* As newLenderOffer, but apr and term are stored in each other's field.
newLenderOffer_swapped(sender, borrowerRequestId, amount, apr, term) ==
  [lender |-> sender, borrowerRequestId |-> borrowerRequestId,
   amount |-> amount, apr |-> term, term |-> apr, isActive |-> TRUE]

newLenderOffer(sender, borrowerRequestId, amount, apr, term) ==
  [lender |-> sender, borrowerRequestId |-> borrowerRequestId,
   amount |-> amount, apr |-> apr, term |-> term, isActive |-> TRUE]

submitLenderOffer(sender, borrowerRequestId, amount, apr, term, now) ==
  LET err == submitLenderOfferRevert(borrowerRequestId, amount, apr, term)
      offerId == pushedId(lenderOffers)
  IN /\ blockTimestamp' = now
     /\ UNCHANGED browser
     /\ IF reverted(err)
        THEN /\ UNCHANGED ledger
             /\ lastCall' = call("submitLenderOffer", sender,
                                 borrowerRequestId, amount, apr, term, 0, 0,
                                 TRUE, err, 0)
        ELSE /\ lenderOffers' =
                  Append(lenderOffers,
                         newLenderOffer(sender, borrowerRequestId, amount,
                                        apr, term))
             /\ lastCall' = call("submitLenderOffer", sender,
                                 borrowerRequestId, amount, apr, term, 0, 0,
                                 TRUE, err, offerId)
             /\ UNCHANGED <<borrowerRequests, loans, nextLoanId,
                            comparisonResults, acl, ciphertexts,
                            acceptedOffers>>

-----------------------------------------------------------------------------
\* As acceptLoanOfferRevert, without the require on request.isActive.
acceptLoanOfferRevert_noRequestCheck(sender, offerId, value) ==
  IF ~(offerId < Len(lenderOffers)) THEN ErrInvalidOffer
  ELSE IF ~offerAt(offerId).isActive THEN ErrInactiveOffer
  ELSE IF ~(requestAt(offerAt(offerId).borrowerRequestId).borrower = sender)
       THEN ErrNotBorrower
  ELSE IF ~(value = 0) THEN ErrValue
  ELSE OK

\* As acceptLoanOfferRevert, with the request checked before the offer.
acceptLoanOfferRevert_requestFirst(sender, offerId, value) ==
  IF ~(offerId < Len(lenderOffers)) THEN ErrInvalidOffer
  ELSE IF ~requestAt(offerAt(offerId).borrowerRequestId).isActive
       THEN ErrRequestClosed
  ELSE IF ~offerAt(offerId).isActive THEN ErrInactiveOffer
  ELSE IF ~(requestAt(offerAt(offerId).borrowerRequestId).borrower = sender)
       THEN ErrNotBorrower
  ELSE IF ~(value = 0) THEN ErrValue
  ELSE OK

\* As acceptLoanOfferRevert, but the lender of the offer may accept it too.
acceptLoanOfferRevert_lenderToo(sender, offerId, value) ==
  IF ~(offerId < Len(lenderOffers)) THEN ErrInvalidOffer
  ELSE IF ~offerAt(offerId).isActive THEN ErrInactiveOffer
  ELSE IF ~requestAt(offerAt(offerId).borrowerRequestId).isActive
       THEN ErrRequestClosed
  ELSE IF ~(\/ requestAt(offerAt(offerId).borrowerRequestId).borrower = sender
            \/ offerAt(offerId).lender = sender)
       THEN ErrNotBorrower
  ELSE IF ~(value = 0) THEN ErrValue
  ELSE OK

\* As acceptLoanOfferRevert, with the caller checked before the request.
acceptLoanOfferRevert_borrowerFirst(sender, offerId, value) ==
  IF ~(offerId < Len(lenderOffers)) THEN ErrInvalidOffer
  ELSE IF ~offerAt(offerId).isActive THEN ErrInactiveOffer
  ELSE IF ~(requestAt(offerAt(offerId).borrowerRequestId).borrower = sender)
       THEN ErrNotBorrower
  ELSE IF ~requestAt(offerAt(offerId).borrowerRequestId).isActive
       THEN ErrRequestClosed
  ELSE IF ~(value = 0) THEN ErrValue
  ELSE OK

\* As acceptLoanOfferRevert, without the require on msg.value.
acceptLoanOfferRevert_noValueCheck(sender, offerId, value) ==
  IF ~(offerId < Len(lenderOffers)) THEN ErrInvalidOffer
  ELSE IF ~offerAt(offerId).isActive THEN ErrInactiveOffer
  ELSE IF ~requestAt(offerAt(offerId).borrowerRequestId).isActive
       THEN ErrRequestClosed
  ELSE IF ~(requestAt(offerAt(offerId).borrowerRequestId).borrower = sender)
       THEN ErrNotBorrower
  ELSE OK

\* acceptLoanOffer: the five requires, in order.
acceptLoanOfferRevert(sender, offerId, value) ==
  IF ~(offerId < Len(lenderOffers)) THEN ErrInvalidOffer
  ELSE IF ~offerAt(offerId).isActive THEN ErrInactiveOffer
  ELSE IF ~requestAt(offerAt(offerId).borrowerRequestId).isActive
       THEN ErrRequestClosed
  ELSE IF ~(requestAt(offerAt(offerId).borrowerRequestId).borrower = sender)
       THEN ErrNotBorrower
  ELSE IF ~(value = 0) THEN ErrValue
  ELSE OK

\* As newLoan, but amount and term are copied from the request.
newLoan_fromRequest(request, offer, now) ==
  [borrower |-> request.borrower, lender |-> offer.lender,
   amount |-> request.amount, apr |-> offer.apr, term |-> request.term,
   startTime |-> toUint32(now), isActive |-> TRUE, isRepaid |-> FALSE]

\* As newLoan, but isActive is copied from the request, which the caller
\* closes.
newLoan_inactive(request, offer, now) ==
  [borrower |-> request.borrower, lender |-> offer.lender,
   amount |-> offer.amount, apr |-> offer.apr, term |-> offer.term,
   startTime |-> toUint32(now), isActive |-> ~request.isActive,
   isRepaid |-> FALSE]

newLoan(request, offer, now) ==
  [borrower |-> request.borrower, lender |-> offer.lender,
   amount |-> offer.amount, apr |-> offer.apr, term |-> offer.term,
   startTime |-> toUint32(now), isActive |-> TRUE, isRepaid |-> FALSE]

\* "Deactivate the request and offer": the two flag writes.
\* As deactivateRequest, but the write is missing.
deactivateRequest_skip(requests, requestId) == requests

deactivateRequest(requests, requestId) ==
  [requests EXCEPT ![requestId + 1].isActive = FALSE]

\* As deactivateOffer, but every offer of the same request is closed.
deactivateOffer_siblings(offers, offerId) ==
  [i \in DOMAIN offers |->
     IF offers[i].borrowerRequestId = offers[offerId + 1].borrowerRequestId
     THEN [offers[i] EXCEPT !.isActive = FALSE]
     ELSE offers[i]]

\* As deactivateOffer, but the offer is deleted: in Solidity, delete of an
\* array element zeroes it in place.
deactivateOffer_delete(offers, offerId) ==
  [offers EXCEPT ![offerId + 1] =
     [lender |-> "", borrowerRequestId |-> 0, amount |-> 0, apr |-> 0,
      term |-> 0, isActive |-> FALSE]]

deactivateOffer(offers, offerId) ==
  [offers EXCEPT ![offerId + 1].isActive = FALSE]

acceptLoanOffer(sender, offerId, value, now) ==
  LET err == acceptLoanOfferRevert(sender, offerId, value)
      offer == offerAt(offerId)
      request == requestAt(offer.borrowerRequestId)
      loanId == pushedId(loans)
  IN /\ blockTimestamp' = now
     /\ UNCHANGED browser
     /\ IF reverted(err)
        THEN /\ UNCHANGED ledger
             /\ lastCall' = call("acceptLoanOffer", sender, offerId, 0, 0, 0,
                                 0, value, TRUE, err, 0)
        ELSE /\ loans' = Append(loans, newLoan(request, offer, now))
             /\ borrowerRequests' =
                  deactivateRequest(borrowerRequests, offer.borrowerRequestId)
             /\ lenderOffers' = deactivateOffer(lenderOffers, offerId)
             /\ acceptedOffers' = Append(acceptedOffers, offerId)
             /\ lastCall' = call("acceptLoanOffer", sender, offerId, 0, 0, 0,
                                 0, value, TRUE, err, loanId)
             /\ UNCHANGED <<nextLoanId, comparisonResults, acl, ciphertexts>>

-----------------------------------------------------------------------------
\* findMatches.  The test of the first loop, given everything the contract
\* and the coprocessor hold about the request.
\* As matches, without the test of isActive.
matches_all(request, plaintexts, minScore) == TRUE

\* As matches, but the plaintext score is compared with the threshold.
matches_byScore(request, plaintexts, minScore) ==
  request.isActive /\ plaintexts[request.encryptedScore] >= minScore

matches(request, plaintexts, minScore) == request.isActive

\* The first loop: <<tempMatches, matchCount>> from index i on.
RECURSIVE findMatchesLoop(_, _, _, _, _, _)
findMatchesLoop(requests, plaintexts, minScore, i, tempMatches, matchCount) ==
  IF ~(i < Len(requests)) THEN <<tempMatches, matchCount>>
  ELSE IF matches(requests[i + 1], plaintexts, minScore)
       THEN findMatchesLoop(requests, plaintexts, minScore, i + 1,
                            [tempMatches EXCEPT ![matchCount + 1] = i],
                            matchCount + 1)
       ELSE findMatchesLoop(requests, plaintexts, minScore, i + 1,
                            tempMatches, matchCount)

\* The second loop copies the first matchCount slots.
findMatchesIn(requests, plaintexts, minScore) ==
  LET tempMatches == [k \in 1 .. Len(requests) |-> 0]
      found == findMatchesLoop(requests, plaintexts, minScore, 0,
                               tempMatches, 0)
  IN [j \in 1 .. found[2] |-> found[1][j]]

findMatches(minScore) ==
  findMatchesIn(borrowerRequests, ciphertexts, minScore)

-----------------------------------------------------------------------------
\* Read-only accessors.  A result is <<err, value>>.
getBorrowerRequest(requestId) ==
  IF ~(requestId < Len(borrowerRequests)) THEN <<ErrInvalidRequest, <<>>>>
  ELSE LET request == requestAt(requestId)
       IN <<OK, <<request.borrower, request.amount, request.term,
                  request.isActive>>>>

getLenderOffer(offerId) ==
  IF ~(offerId < Len(lenderOffers)) THEN <<ErrInvalidOffer, <<>>>>
  ELSE LET offer == offerAt(offerId)
       IN <<OK, <<offer.lender, offer.borrowerRequestId, offer.amount,
                  offer.apr, offer.term, offer.isActive>>>>

ErrInvalidLoan == "Invalid loan ID"

\* As getLoan, but an id out of range reads as a zero-valued record.
getLoan_default(loanId) ==
  IF ~(loanId < Len(loans))
  THEN <<OK, <<"", "", 0, 0, 0, <<0, 0>>, FALSE, FALSE>>>>
  ELSE LET loan == loanAt(loanId)
       IN <<OK, <<loan.borrower, loan.lender, loan.amount, loan.apr,
                  loan.term, loan.startTime, loan.isActive, loan.isRepaid>>>>

getLoan(loanId) ==
  IF ~(loanId < Len(loans)) THEN <<ErrInvalidLoan, <<>>>>
  ELSE LET loan == loanAt(loanId)
       IN <<OK, <<loan.borrower, loan.lender, loan.amount, loan.apr,
                  loan.term, loan.startTime, loan.isActive, loan.isRepaid>>>>

getEncryptedScore(requestId) ==
  IF ~(requestId < Len(borrowerRequests)) THEN <<ErrInvalidRequest, <<>>>>
  ELSE <<OK, requestAt(requestId).encryptedScore>>

\* Ids a call may name: every id in range and the first one out of range.
RequestIds == 0 .. Len(borrowerRequests)

OfferIds == 0 .. Len(lenderOffers)

-----------------------------------------------------------------------------
\* The arrays and the cache grow without limit in the contract; the
\* exploration stops a call that would add a record when requests, offers
\* and cache entries together number MaxRecords.
records ==
  Len(borrowerRequests) + Len(lenderOffers)
    + Cardinality(DOMAIN comparisonResults)

roomForRequest(amount, term, proofOk) ==
  \/ submitBorrowerRequestRevert(amount, term, proofOk) # OK
  \/ records < MaxRecords

roomForCheck(sender, requestId, minScore) ==
  \/ checkScoreMatchRevert(requestId) # OK
  \/ <<requestId, minScore, sender>> \in DOMAIN comparisonResults
  \/ records < MaxRecords

roomForOffer(borrowerRequestId, amount, apr, term) ==
  \/ submitLenderOfferRevert(borrowerRequestId, amount, apr, term) # OK
  \/ records < MaxRecords

\* Every transaction of this specification is mined at the timestamp of the
\* deployment block.
BorrowStep ==
  \E sender \in Principals, s \in Scores, in \in BorrowInputs :
    /\ roomForRequest(in[1], in[2], in[3])
    /\ submitBorrowerRequest(sender, s, in[1], in[2], in[3], blockTimestamp)

CheckStep ==
  \E sender \in Principals, r \in RequestIds, m \in MinScores :
    /\ roomForCheck(sender, r, m)
    /\ checkScoreMatch(sender, r, m, blockTimestamp)

OfferStep ==
  \E sender \in Principals, r \in RequestIds, in \in OfferInputs :
    /\ roomForOffer(r, in[1], in[2], in[3])
    /\ submitLenderOffer(sender, r, in[1], in[2], in[3], blockTimestamp)

AcceptStep ==
  \E sender \in Principals, o \in OfferIds, v \in Values :
    acceptLoanOffer(sender, o, v, blockTimestamp)

Next == BorrowStep \/ CheckStep \/ OfferStep \/ AcceptStep

Spec == Init /\ [][Next]_vars

-----------------------------------------------------------------------------
\* A second specification: the same operations on a smaller ledger, called
\* with the values on both sides of every limit of the require statements,
\* with inputs that fail two requires at once, and with thresholds below,
\* at and above the score.
MaxBoundaryRecords == 2

\* <<amount, term, proofOk>> of submitBorrowerRequest.
BoundaryBorrowInputs ==
  {<<1, 1, TRUE>>, <<5000, 120, TRUE>>,
   <<0, 12, TRUE>>, <<5000, 0, TRUE>>, <<5000, 121, TRUE>>,
   <<5000, 1000, TRUE>>, <<5000, 12, FALSE>>,
   <<0, 0, TRUE>>, <<0, 121, FALSE>>, <<5000, 0, FALSE>>,
   <<5000, 121, FALSE>>}

\* <<amount, apr, term>> of submitLenderOffer.
BoundaryOfferInputs ==
  {<<1, 1, 120>>, <<4000, 10000, 1>>,
   <<0, 500, 6>>, <<4000, 0, 6>>, <<4000, 10001, 6>>, <<4000, 20000, 6>>,
   <<4000, 500, 0>>, <<4000, 500, 121>>, <<4000, 500, 1000>>,
   <<0, 0, 0>>, <<4000, 0, 0>>, <<4000, 10001, 121>>}

BoundaryMinScores == {700, 750, 800}

BoundaryBorrowStep ==
  \E sender \in Principals, s \in Scores, in \in BoundaryBorrowInputs :
    /\ \/ submitBorrowerRequestRevert(in[1], in[2], in[3]) # OK
       \/ records < MaxBoundaryRecords
    /\ submitBorrowerRequest(sender, s, in[1], in[2], in[3], blockTimestamp)

BoundaryCheckStep ==
  \E sender \in Principals, r \in RequestIds, m \in BoundaryMinScores :
    /\ \/ checkScoreMatchRevert(r) # OK
       \/ <<r, m, sender>> \in DOMAIN comparisonResults
       \/ records < MaxBoundaryRecords
    /\ checkScoreMatch(sender, r, m, blockTimestamp)

BoundaryOfferStep ==
  \E sender \in Principals, r \in RequestIds, in \in BoundaryOfferInputs :
    /\ \/ submitLenderOfferRevert(r, in[1], in[2], in[3]) # OK
       \/ records < MaxBoundaryRecords
    /\ submitLenderOffer(sender, r, in[1], in[2], in[3], blockTimestamp)

NextBoundary ==
  BoundaryBorrowStep \/ BoundaryCheckStep \/ BoundaryOfferStep \/ AcceptStep

SpecBoundary == Init /\ [][NextBoundary]_vars

-----------------------------------------------------------------------------
\* A third specification: the transactions of the first one on a smaller
\* ledger, and between them the calls of the view functions.  A view call
\* is not mined: it writes nothing and the block timestamp stays.  The
\* thresholds are one below the score, the score, and the next number.
MaxReadRecords == 3

ReadMinScores == {700, 750, 751}

\* The view call a step executed and its outcome; caller is the address
\* argument of getComparisonResult.
viewCall(op, sender, id, minScore, caller, err, ret) ==
  [op |-> op, sender |-> sender, id |-> id, amount |-> 0, apr |-> 0,
   term |-> 0, minScore |-> minScore, value |-> 0, proofOk |-> TRUE,
   err |-> err, ret |-> ret, caller |-> caller]

ReadBorrowStep ==
  \E sender \in Principals, s \in Scores, in \in BorrowInputs :
    /\ \/ submitBorrowerRequestRevert(in[1], in[2], in[3]) # OK
       \/ records < MaxReadRecords
    /\ submitBorrowerRequest(sender, s, in[1], in[2], in[3], blockTimestamp)

ReadCheckStep ==
  \E sender \in Principals, r \in RequestIds, m \in ReadMinScores :
    /\ \/ checkScoreMatchRevert(r) # OK
       \/ <<r, m, sender>> \in DOMAIN comparisonResults
       \/ records < MaxReadRecords
    /\ checkScoreMatch(sender, r, m, blockTimestamp)

ReadOfferStep ==
  \E sender \in Principals, r \in RequestIds, in \in OfferInputs :
    /\ \/ submitLenderOfferRevert(r, in[1], in[2], in[3]) # OK
       \/ records < MaxReadRecords
    /\ submitLenderOffer(sender, r, in[1], in[2], in[3], blockTimestamp)

LoanIds == 0 .. Len(loans)

GetBorrowerRequestsCountStep ==
  \E sender \in Principals :
    /\ lastCall' = viewCall("getBorrowerRequestsCount", sender, 0, 0, sender,
                            OK, getBorrowerRequestsCount)
    /\ UNCHANGED <<ledger, blockTimestamp, browser>>

GetLenderOffersCountStep ==
  \E sender \in Principals :
    /\ lastCall' = viewCall("getLenderOffersCount", sender, 0, 0, sender,
                            OK, getLenderOffersCount)
    /\ UNCHANGED <<ledger, blockTimestamp, browser>>

GetLoansCountStep ==
  \E sender \in Principals :
    /\ lastCall' = viewCall("getLoansCount", sender, 0, 0, sender, OK,
                            getLoansCount)
    /\ UNCHANGED <<ledger, blockTimestamp, browser>>

GetBorrowerRequestStep ==
  \E sender \in Principals, r \in RequestIds :
    /\ lastCall' = viewCall("getBorrowerRequest", sender, r, 0, sender,
                            getBorrowerRequest(r)[1],
                            getBorrowerRequest(r)[2])
    /\ UNCHANGED <<ledger, blockTimestamp, browser>>

GetEncryptedScoreStep ==
  \E sender \in Principals, r \in RequestIds :
    /\ lastCall' = viewCall("getEncryptedScore", sender, r, 0, sender,
                            getEncryptedScore(r)[1], getEncryptedScore(r)[2])
    /\ UNCHANGED <<ledger, blockTimestamp, browser>>

GetLenderOfferStep ==
  \E sender \in Principals, o \in OfferIds :
    /\ lastCall' = viewCall("getLenderOffer", sender, o, 0, sender,
                            getLenderOffer(o)[1], getLenderOffer(o)[2])
    /\ UNCHANGED <<ledger, blockTimestamp, browser>>

GetLoanStep ==
  \E sender \in Principals, l \in LoanIds :
    /\ lastCall' = viewCall("getLoan", sender, l, 0, sender, getLoan(l)[1],
                            getLoan(l)[2])
    /\ UNCHANGED <<ledger, blockTimestamp, browser>>

GetComparisonResultStep ==
  \E sender \in Principals, r \in RequestIds, m \in ReadMinScores,
     caller \in Principals :
    /\ lastCall' = viewCall("getComparisonResult", sender, r, m, caller, OK,
                            getComparisonResult(r, m, caller))
    /\ UNCHANGED <<ledger, blockTimestamp, browser>>

FindMatchesStep ==
  \E sender \in Principals, m \in MinScores :
    /\ lastCall' = viewCall("findMatches", sender, 0, m, sender, OK,
                            findMatches(m))
    /\ UNCHANGED <<ledger, blockTimestamp, browser>>

NextReads ==
  \/ ReadBorrowStep
  \/ ReadCheckStep
  \/ ReadOfferStep
  \/ AcceptStep
  \/ GetBorrowerRequestsCountStep
  \/ GetLenderOffersCountStep
  \/ GetLoansCountStep
  \/ GetBorrowerRequestStep
  \/ GetEncryptedScoreStep
  \/ GetLenderOfferStep
  \/ GetLoanStep
  \/ GetComparisonResultStep
  \/ FindMatchesStep

SpecReads == Init /\ [][NextReads]_vars

-----------------------------------------------------------------------------
\* A fourth specification: findMatches executed one loop iteration at a
\* time.  While the call runs, lastCall holds its local variables as ret
\* and Running as err; the machine executes one call at a time, so no other
\* call starts before it returns.
MaxLoopRecords == 3

Running == "running"

idle == lastCall.err # Running

\* The local variables of findMatches when the first loop is entered.
findMatchesEnter(requests) ==
  [pc |-> "firstLoop", i |-> 0,
   tempMatches |-> [k \in 1 .. Len(requests) |-> 0], matchCount |-> 0,
   j |-> 0, matchingRequestIds |-> <<>>]

\* As firstLoopStep, but i is incremented only when the request matches.
firstLoopStep_noIncrement(frame, requests) ==
  IF frame.i < Len(requests)
  THEN IF requests[frame.i + 1].isActive
       THEN [frame EXCEPT !.tempMatches[frame.matchCount + 1] = frame.i,
                          !.matchCount = frame.matchCount + 1,
                          !.i = frame.i + 1]
       ELSE frame
  ELSE [frame EXCEPT !.pc = "secondLoop",
                     !.matchingRequestIds =
                        [k \in 1 .. frame.matchCount |-> 0],
                     !.j = 0]

\* One test of the first loop: an iteration, or the exit to the allocation
\* of matchingRequestIds and the second loop.
firstLoopStep(frame, requests) ==
  IF frame.i < Len(requests)
  THEN IF requests[frame.i + 1].isActive
       THEN [frame EXCEPT !.tempMatches[frame.matchCount + 1] = frame.i,
                          !.matchCount = frame.matchCount + 1,
                          !.i = frame.i + 1]
       ELSE [frame EXCEPT !.i = frame.i + 1]
  ELSE [frame EXCEPT !.pc = "secondLoop",
                     !.matchingRequestIds =
                        [k \in 1 .. frame.matchCount |-> 0],
                     !.j = 0]

\* One test of the second loop: an iteration, or the exit to the return.
secondLoopStep(frame) ==
  IF frame.j < frame.matchCount
  THEN [frame EXCEPT !.matchingRequestIds[frame.j + 1] =
                        frame.tempMatches[frame.j + 1],
                     !.j = frame.j + 1]
  ELSE [frame EXCEPT !.pc = "return"]

LoopBorrowStep ==
  /\ idle
  /\ \E sender \in Principals, s \in Scores, in \in BorrowInputs :
       /\ \/ submitBorrowerRequestRevert(in[1], in[2], in[3]) # OK
          \/ records < MaxLoopRecords
       /\ submitBorrowerRequest(sender, s, in[1], in[2], in[3],
                                blockTimestamp)

LoopCheckStep ==
  /\ idle
  /\ \E sender \in Principals, r \in RequestIds, m \in MinScores :
       /\ \/ checkScoreMatchRevert(r) # OK
          \/ <<r, m, sender>> \in DOMAIN comparisonResults
          \/ records < MaxLoopRecords
       /\ checkScoreMatch(sender, r, m, blockTimestamp)

LoopOfferStep ==
  /\ idle
  /\ \E sender \in Principals, r \in RequestIds, in \in OfferInputs :
       /\ \/ submitLenderOfferRevert(r, in[1], in[2], in[3]) # OK
          \/ records < MaxLoopRecords
       /\ submitLenderOffer(sender, r, in[1], in[2], in[3], blockTimestamp)

LoopAcceptStep ==
  /\ idle
  /\ \E sender \in Principals, o \in OfferIds, v \in Values :
       acceptLoanOffer(sender, o, v, blockTimestamp)

FindMatchesCallStep ==
  /\ idle
  /\ \E sender \in Principals, m \in MinScores :
       lastCall' = viewCall("findMatches", sender, 0, m, sender, Running,
                            findMatchesEnter(borrowerRequests))
  /\ UNCHANGED <<ledger, blockTimestamp, browser>>

FirstLoopStep ==
  /\ ~idle
  /\ lastCall.ret.pc = "firstLoop"
  /\ lastCall' = [lastCall EXCEPT
                    !.ret = firstLoopStep(lastCall.ret, borrowerRequests)]
  /\ UNCHANGED <<ledger, blockTimestamp, browser>>

SecondLoopStep ==
  /\ ~idle
  /\ lastCall.ret.pc = "secondLoop"
  /\ lastCall' = [lastCall EXCEPT !.ret = secondLoopStep(lastCall.ret)]
  /\ UNCHANGED <<ledger, blockTimestamp, browser>>

FindMatchesReturnStep ==
  /\ ~idle
  /\ lastCall.ret.pc = "return"
  /\ lastCall' = [lastCall EXCEPT !.err = OK,
                                  !.ret = lastCall.ret.matchingRequestIds]
  /\ UNCHANGED <<ledger, blockTimestamp, browser>>

FindMatchesRun == FirstLoopStep \/ SecondLoopStep \/ FindMatchesReturnStep

NextLoops ==
  \/ LoopBorrowStep
  \/ LoopCheckStep
  \/ LoopOfferStep
  \/ LoopAcceptStep
  \/ FindMatchesCallStep
  \/ FirstLoopStep
  \/ SecondLoopStep
  \/ FindMatchesReturnStep

\* The machine runs a call it has started to its end.
SpecLoops == Init /\ [][NextLoops]_vars /\ WF_vars(FindMatchesRun)

-----------------------------------------------------------------------------
\* A fifth specification: the clock of the chain advances between the
\* transactions, in long strides that take it from the deployment past
\* 2^32 seconds, where uint32(block.timestamp) wraps.  The calls are the
\* ones that lead to loans, with the arguments of the end-to-end scenario.
MaxClockRecords == 4

MaxTicks == 2

\* A stride of the clock: 20000 * 2^16 + 12 seconds.
Tick == <<20000, 12>>

\* Sum of two timestamps, with the carry between the limbs.
addTime(t, d) ==
  <<t[1] + d[1] + ((t[2] + d[2]) \div Limb), (t[2] + d[2]) % Limb>>

\* t1 <= t2 on timestamps.
timeLeq(t1, t2) == t1[1] < t2[1] \/ (t1[1] = t2[1] /\ t1[2] <= t2[2])

ClockBorrowInputs == {<<5000, 12, TRUE>>}

ClockOfferInputs == {<<4000, 500, 6>>}

\* A block is mined that holds no call of the contract.
TickStep ==
  /\ blockTimestamp[1] + Tick[1] <= StartTime[1] + (MaxTicks * Tick[1])
  /\ blockTimestamp' = addTime(blockTimestamp, Tick)
  /\ UNCHANGED <<ledger, lastCall, browser>>

ClockBorrowStep ==
  \E sender \in Principals, s \in Scores, in \in ClockBorrowInputs :
    /\ \/ submitBorrowerRequestRevert(in[1], in[2], in[3]) # OK
       \/ records < MaxClockRecords
    /\ submitBorrowerRequest(sender, s, in[1], in[2], in[3], blockTimestamp)

ClockOfferStep ==
  \E sender \in Principals, r \in RequestIds, in \in ClockOfferInputs :
    /\ \/ submitLenderOfferRevert(r, in[1], in[2], in[3]) # OK
       \/ records < MaxClockRecords
    /\ submitLenderOffer(sender, r, in[1], in[2], in[3], blockTimestamp)

NextClock == TickStep \/ ClockBorrowStep \/ ClockOfferStep \/ AcceptStep

SpecClock == Init /\ [][NextClock]_vars

-----------------------------------------------------------------------------
\* Vocabulary of the properties.  lastCall' names the call a step executed;
\* the unprimed variables are the state the call ran in.
Range(seq) == {seq[i] : i \in DOMAIN seq}

requestOf(offerId) == offerAt(offerId).borrowerRequestId

acceptCalled == lastCall'.op = "acceptLoanOffer"

acceptSucceeded == acceptCalled /\ lastCall'.err = OK

-----------------------------------------------------------------------------
\* C1: in every reachable state each loan comes from one accepted offer and
\* no two loans come from offers of the same borrower request.
C1_OneLoanPerRequest ==
  /\ Len(acceptedOffers) = Len(loans)
  /\ \A i, j \in DOMAIN acceptedOffers :
       i # j => requestOf(acceptedOffers[i]) # requestOf(acceptedOffers[j])

\* A second acceptance on the same request was attempted and lost the race.
C1_Witness ==
  /\ Len(loans) = 1
  /\ lastCall.op = "acceptLoanOffer"
  /\ lastCall.err = ErrRequestClosed
  /\ lastCall.id # acceptedOffers[1]
  /\ requestOf(lastCall.id) = requestOf(acceptedOffers[1])

\* C2: a successful acceptLoanOffer closes the request of the offer, and an
\* acceptLoanOffer of an active offer whose request is closed fails with
\* "Borrower request is not active", creates no loan and changes no offer.
C2_SecondAcceptFails ==
  [][/\ acceptSucceeded =>
          ~borrowerRequests'[requestOf(lastCall'.id) + 1].isActive
     /\ (/\ acceptCalled
         /\ lastCall'.id < Len(lenderOffers)
         /\ offerAt(lastCall'.id).isActive
         /\ ~requestAt(requestOf(lastCall'.id)).isActive)
        => /\ lastCall'.err = ErrRequestClosed
           /\ loans' = loans
           /\ lenderOffers' = lenderOffers]_vars

\* The borrower accepted A and then failed to accept the active sibling B.
C2_Witness ==
  /\ lastCall.op = "acceptLoanOffer"
  /\ lastCall.err = ErrRequestClosed
  /\ lastCall.sender = requestAt(requestOf(lastCall.id)).borrower
  /\ offerAt(lastCall.id).isActive
  /\ Len(loans) = 1

\* C3: acceptLoanOffer succeeds only on an offer that was never accepted, and
\* closes it; a call on an offer accepted before fails with "Offer is not
\* active" and leaves the loans as they are.
C3_OneLoanPerOffer ==
  [][/\ acceptSucceeded =>
          /\ lastCall'.id \notin Range(acceptedOffers)
          /\ ~lenderOffers'[lastCall'.id + 1].isActive
     /\ (acceptCalled /\ lastCall'.id \in Range(acceptedOffers))
        => /\ lastCall'.err = ErrInactiveOffer
           /\ loans' = loans]_vars

\* An accepted offer was accepted again, and the call failed.
C3_Witness ==
  /\ lastCall.op = "acceptLoanOffer"
  /\ lastCall.id \in Range(acceptedOffers)
  /\ lastCall.err = ErrInactiveOffer
  /\ Len(loans) = 1

\* C4: acceptLoanOffer of an active offer on an active request by a caller
\* that is not the borrower of the request fails with "Only borrower can
\* accept offer" and changes nothing; the borrower of a new loan is the
\* caller of the acceptance.
C4_OnlyBorrowerAccepts ==
  [][/\ (/\ acceptCalled
         /\ lastCall'.id < Len(lenderOffers)
         /\ offerAt(lastCall'.id).isActive
         /\ requestAt(requestOf(lastCall'.id)).isActive
         /\ requestAt(requestOf(lastCall'.id)).borrower # lastCall'.sender)
        => /\ lastCall'.err = ErrNotBorrower
           /\ ledger' = ledger
     /\ acceptSucceeded =>
          /\ requestAt(requestOf(lastCall'.id)).borrower = lastCall'.sender
          /\ loans'[Len(loans')].borrower = lastCall'.sender]_vars

\* The lender of an acceptable offer tried to accept it himself.
C4_Witness ==
  /\ lastCall.op = "acceptLoanOffer"
  /\ lastCall.err = ErrNotBorrower
  /\ lastCall.sender = offerAt(lastCall.id).lender
  /\ offerAt(lastCall.id).isActive
  /\ requestAt(requestOf(lastCall.id)).isActive

\* C5: a successful acceptLoanOffer(o) appends one loan, with id equal to
\* the previous loan count, the borrower of the request, the lender, amount,
\* apr and term of offer o, isActive true and isRepaid false, and in the
\* same step closes the request and offer o.
C5_AcceptCreatesLoan ==
  [][acceptSucceeded =>
       LET offer == offerAt(lastCall'.id)
           request == requestAt(offer.borrowerRequestId)
           loan == loans'[Len(loans')]
       IN /\ Len(loans') = Len(loans) + 1
          /\ SubSeq(loans', 1, Len(loans)) = loans
          /\ lastCall'.ret = Len(loans)
          /\ loan.borrower = request.borrower
          /\ loan.lender = offer.lender
          /\ loan.amount = offer.amount
          /\ loan.apr = offer.apr
          /\ loan.term = offer.term
          /\ loan.isActive
          /\ ~loan.isRepaid
          /\ request.isActive
          /\ offer.isActive
          /\ ~borrowerRequests'[offer.borrowerRequestId + 1].isActive
          /\ ~lenderOffers'[lastCall'.id + 1].isActive]_vars

\* The end-to-end scenario: bob's offer on alice's request, accepted.
C5_Witness ==
  /\ lastCall.op = "acceptLoanOffer"
  /\ lastCall.err = OK
  /\ Len(loans) = 1
  /\ loans[1].borrower = "alice"
  /\ loans[1].lender = "bob"
  /\ loans[1].amount # requestAt(requestOf(lastCall.id)).amount

\* C6, as claimed: after a successful acceptLoanOffer(o) every offer of the
\* request of o is inactive.
C6_SiblingsClosed ==
  [][acceptSucceeded =>
       \A i \in DOMAIN lenderOffers :
         lenderOffers[i].borrowerRequestId = requestOf(lastCall'.id)
           => ~lenderOffers'[i].isActive]_vars

\* C6, amended: after a successful acceptLoanOffer(o) the request of o and
\* offer o are inactive, and every other offer, also of the same request,
\* keeps its isActive flag.
C6_OnlyAcceptedOfferClosed ==
  [][acceptSucceeded =>
       /\ ~borrowerRequests'[requestOf(lastCall'.id) + 1].isActive
       /\ ~lenderOffers'[lastCall'.id + 1].isActive
       /\ \A i \in DOMAIN lenderOffers :
            i # lastCall'.id + 1 => lenderOffers'[i] = lenderOffers[i]]_vars

\* An offer was just accepted and a sibling offer of its request is active.
C6_Witness ==
  /\ lastCall.op = "acceptLoanOffer"
  /\ lastCall.err = OK
  /\ \E i \in DOMAIN lenderOffers :
       /\ i # lastCall.id + 1
       /\ lenderOffers[i].borrowerRequestId = requestOf(lastCall.id)
       /\ lenderOffers[i].isActive

\* C7: the isActive flag of an offer changes only from true to false and
\* only in the successful acceptLoanOffer of that offer; an active offer of
\* a closed request stays active.
C7_OfferFlagFrame ==
  [][\A i \in DOMAIN lenderOffers :
       /\ lenderOffers'[i].isActive # lenderOffers[i].isActive
            => /\ lenderOffers[i].isActive
               /\ acceptSucceeded
               /\ lastCall'.id = i - 1
       /\ (/\ lenderOffers[i].isActive
           /\ ~requestAt(lenderOffers[i].borrowerRequestId).isActive)
            => lenderOffers'[i].isActive]_vars

\* A sibling offer is still active after a later call on the closed request.
C7_Witness ==
  /\ lastCall.op = "submitLenderOffer"
  /\ lastCall.err = ErrInactiveRequest
  /\ \E i \in DOMAIN lenderOffers :
       /\ lenderOffers[i].isActive
       /\ lenderOffers[i].borrowerRequestId = lastCall.id
       /\ \E j \in DOMAIN lenderOffers :
            /\ ~lenderOffers[j].isActive
            /\ lenderOffers[j].borrowerRequestId = lastCall.id

\* C8: a request is active when it is created, its flag changes only from
\* true to false and only in a successful acceptLoanOffer of an offer that
\* references it; a closed request stays closed.
C8_RequestFlag ==
  [][/\ \A i \in DOMAIN borrowerRequests :
          /\ borrowerRequests'[i].isActive # borrowerRequests[i].isActive
               => /\ borrowerRequests[i].isActive
                  /\ acceptSucceeded
                  /\ requestOf(lastCall'.id) = i - 1
          /\ ~borrowerRequests[i].isActive => ~borrowerRequests'[i].isActive
     /\ \A i \in DOMAIN borrowerRequests' :
          i \notin DOMAIN borrowerRequests => borrowerRequests'[i].isActive]_vars

\* A closed request was the target of a later call and is still closed.
C8_Witness ==
  /\ lastCall.op = "checkScoreMatch"
  /\ lastCall.err = ErrInactiveRequest
  /\ ~requestAt(lastCall.id).isActive
  /\ Len(loans) = 1

\* C9: a call that fails leaves requests, offers, loans, the comparison
\* cache, the grants and the ciphertexts as they were.
C9_FailureChangesNothing ==
  [][lastCall'.err # OK => ledger' = ledger]_vars

\* An acceptance was refused for want of authorisation on a ledger that holds
\* a request, an offer and a cached comparison.
C9_Witness ==
  /\ lastCall.op = "acceptLoanOffer"
  /\ lastCall.err = ErrNotBorrower
  /\ Len(borrowerRequests) = 1
  /\ Len(lenderOffers) >= 1
  /\ DOMAIN comparisonResults # {}
  /\ Len(loans) = 0

\* C10: a submitBorrowerRequest with amount > 0, 1 <= term <= 120 and an
\* accepted proof succeeds, the request count grows by one, and
\* getBorrowerRequest of the new id, the previous count, returns the caller,
\* the amount, the term and isActive true.
C10_SubmitThenGet ==
  [][(/\ lastCall'.op = "submitBorrowerRequest"
      /\ lastCall'.amount > 0
      /\ lastCall'.term >= 1
      /\ lastCall'.term <= 120
      /\ lastCall'.proofOk)
     => /\ lastCall'.err = OK
        /\ Len(borrowerRequests') = Len(borrowerRequests) + 1
        /\ lastCall'.ret = Len(borrowerRequests)
        /\ getBorrowerRequest(lastCall.ret)' =
             <<OK, <<lastCall'.sender, lastCall'.amount, lastCall'.term,
                     TRUE>>>>]_vars

\* bob submitted the request of the end-to-end scenario.
C10_Witness ==
  /\ lastCall.op = "submitBorrowerRequest"
  /\ lastCall.err = OK
  /\ lastCall.sender = "bob"
  /\ getBorrowerRequest(lastCall.ret) = <<OK, <<"bob", 5000, 12, TRUE>>>>

-----------------------------------------------------------------------------
borrowCalled == lastCall'.op = "submitBorrowerRequest"

offerCalled == lastCall'.op = "submitLenderOffer"

checkCalled == lastCall'.op = "checkScoreMatch"

checkSucceeded == checkCalled /\ lastCall'.err = OK

\* C11: submitBorrowerRequest reverts with the amount reason when amount is
\* 0, whatever term and proof are; with amount > 0 it reverts with the term
\* reason when term is 0 or at least 121, whatever the proof is; with both in
\* range it reverts on a rejected proof and succeeds on an accepted one, in
\* particular for term 1 and term 120.
C11_BorrowBoundaries ==
  [][borrowCalled =>
       /\ lastCall'.amount = 0 => lastCall'.err = ErrAmount
       /\ (lastCall'.amount > 0 /\ (lastCall'.term = 0 \/ lastCall'.term >= 121))
            => lastCall'.err = ErrTerm
       /\ (/\ lastCall'.amount > 0
           /\ lastCall'.term >= 1
           /\ lastCall'.term <= 120
           /\ ~lastCall'.proofOk) => lastCall'.err = ErrProof
       /\ (/\ lastCall'.amount > 0
           /\ lastCall'.term \in {1, 120}
           /\ lastCall'.proofOk)
            => /\ lastCall'.err = OK
               /\ Len(borrowerRequests') = Len(borrowerRequests) + 1]_vars

\* A request with term 120 was accepted after one with term 1.
C11_Witness ==
  /\ lastCall.op = "submitBorrowerRequest"
  /\ lastCall.err = OK
  /\ lastCall.term = 120
  /\ Len(borrowerRequests) = 2
  /\ borrowerRequests[1].term = 1

\* C12: submitLenderOffer on an existing active request reverts with the
\* amount reason when amount is 0, with the apr reason when amount > 0 and
\* apr is 0 or at least 10001, with the term reason when amount and apr are
\* in range and term is 0 or at least 121, and succeeds for apr 1 and 10000
\* and term 1 and 120.
C12_OfferBoundaries ==
  [][(/\ offerCalled
      /\ lastCall'.id < Len(borrowerRequests)
      /\ requestAt(lastCall'.id).isActive)
     => LET aprOk == lastCall'.apr >= 1 /\ lastCall'.apr <= 10000
        IN /\ lastCall'.amount = 0 => lastCall'.err = ErrAmount
           /\ (/\ lastCall'.amount > 0
               /\ (lastCall'.apr = 0 \/ lastCall'.apr >= 10001))
                => lastCall'.err = ErrApr
           /\ (/\ lastCall'.amount > 0
               /\ aprOk
               /\ (lastCall'.term = 0 \/ lastCall'.term >= 121))
                => lastCall'.err = ErrTerm
           /\ (/\ lastCall'.amount > 0
               /\ lastCall'.apr \in {1, 10000}
               /\ lastCall'.term \in {1, 120})
                => /\ lastCall'.err = OK
                   /\ Len(lenderOffers') = Len(lenderOffers) + 1]_vars

\* An offer with apr 10000 and term 1 was accepted on an active request.
C12_Witness ==
  /\ lastCall.op = "submitLenderOffer"
  /\ lastCall.err = OK
  /\ lastCall.apr = 10000
  /\ lastCall.term = 1
  /\ requestAt(lastCall.id).isActive

\* C13: submitLenderOffer reverts with "Invalid request ID" when the id is
\* not below the request count and with "Request is not active" when the
\* request is closed; an offer is appended only on a request that is active.
C13_OfferNeedsActiveRequest ==
  [][/\ (offerCalled /\ ~(lastCall'.id < Len(borrowerRequests)))
          => lastCall'.err = ErrInvalidRequest
     /\ (/\ offerCalled
         /\ lastCall'.id < Len(borrowerRequests)
         /\ ~requestAt(lastCall'.id).isActive)
          => lastCall'.err = ErrInactiveRequest
     /\ \A i \in DOMAIN lenderOffers' :
          i \notin DOMAIN lenderOffers
            => /\ lenderOffers'[i].borrowerRequestId < Len(borrowerRequests)
               /\ requestAt(lenderOffers'[i].borrowerRequestId).isActive]_vars

\* A well-formed offer on a closed request was refused.
C13_Witness ==
  /\ lastCall.op = "submitLenderOffer"
  /\ lastCall.err = ErrInactiveRequest
  /\ lastCall.amount > 0
  /\ lastCall.apr > 0
  /\ lastCall.term > 0
  /\ ~requestAt(lastCall.id).isActive
  /\ \A i \in DOMAIN lenderOffers :
       lenderOffers[i].borrowerRequestId = lastCall.id
         => ~lenderOffers[i].isActive

\* C14: in every reachable state the borrowerRequestId of every offer is
\* below the number of requests.
C14_OfferRequestInRange ==
  \A i \in DOMAIN lenderOffers :
    lenderOffers[i].borrowerRequestId < Len(borrowerRequests)

\* An offer references the last of two requests.
C14_Witness ==
  /\ Len(borrowerRequests) = 2
  /\ \E i \in DOMAIN lenderOffers :
       lenderOffers[i].borrowerRequestId = Len(borrowerRequests) - 1

\* C15: a submitLenderOffer with an existing active request, amount > 0,
\* 1 <= apr <= 10000 and 1 <= term <= 120 succeeds, the offer count grows by
\* one, getLenderOffer of the new id, the previous count, returns the caller,
\* the request id, the amount, apr and term and isActive true, and the
\* requests are unchanged.
C15_OfferThenGet ==
  [][(/\ offerCalled
      /\ lastCall'.id < Len(borrowerRequests)
      /\ requestAt(lastCall'.id).isActive
      /\ lastCall'.amount > 0
      /\ lastCall'.apr >= 1
      /\ lastCall'.apr <= 10000
      /\ lastCall'.term >= 1
      /\ lastCall'.term <= 120)
     => /\ lastCall'.err = OK
        /\ Len(lenderOffers') = Len(lenderOffers) + 1
        /\ lastCall'.ret = Len(lenderOffers)
        /\ getLenderOffer(lastCall.ret)' =
             <<OK, <<lastCall'.sender, lastCall'.id, lastCall'.amount,
                     lastCall'.apr, lastCall'.term, TRUE>>>>
        /\ borrowerRequests' = borrowerRequests]_vars

\* bob made the second offer, on alice's request.
C15_Witness ==
  /\ lastCall.op = "submitLenderOffer"
  /\ lastCall.err = OK
  /\ lastCall.ret = 1
  /\ getLenderOffer(1) = <<OK, <<"bob", 0, 4000, 500, 6, TRUE>>>>
  /\ requestAt(0).borrower = "alice"

\* C16: in every reachable state findMatches returns the ids of the active
\* requests, all of them and no other id, in strictly ascending order.
C16_FindMatchesActive ==
  \A m \in MinScores :
    LET found == findMatches(m)
    IN /\ \A j \in 1 .. Len(found) - 1 : found[j] < found[j + 1]
       /\ Range(found) =
            {id \in 0 .. Len(borrowerRequests) - 1 : requestAt(id).isActive}

\* Request 0 is closed, request 1 is active, and findMatches returns <<1>>.
C16_Witness ==
  /\ Len(borrowerRequests) = 2
  /\ ~requestAt(0).isActive
  /\ requestAt(1).isActive
  /\ findMatches(700) = <<1>>

\* Thresholds and scores of the comparison of ledgers.
AltMinScores == {700, 800}

AltScores == {300, 850}

\* The plaintext stores that differ from the current one only in the
\* scores behind the handles of the requests.
altPlaintexts ==
  LET handles == {borrowerRequests[i].encryptedScore :
                    i \in DOMAIN borrowerRequests}
  IN {scores @@ ciphertexts : scores \in [handles -> AltScores]}

\* C17: in every reachable state findMatches returns the same list for any
\* two thresholds and for any two ledgers that differ only in the plaintext
\* scores of the requests.
C17_FindMatchesIgnoresScore ==
  \A m1 \in AltMinScores, m2 \in AltMinScores, alt \in altPlaintexts :
    findMatchesIn(borrowerRequests, ciphertexts, m1)
      = findMatchesIn(borrowerRequests, alt, m2)

\* An active request with score 750, between the two thresholds, is listed
\* for both.
C17_Witness ==
  /\ \E i \in DOMAIN borrowerRequests :
       /\ borrowerRequests[i].isActive
       /\ plaintextOf(borrowerRequests[i].encryptedScore) = 750
  /\ findMatches(700) = findMatches(800)
  /\ findMatches(800) # <<>>

\* C18: checkScoreMatch reverts with "Invalid request ID" when the id is not
\* below the request count and with "Request is not active" when the request
\* is closed, and then changes nothing; the cache changes only in a
\* successful checkScoreMatch, whose request is active.
C18_CheckNeedsActiveRequest ==
  [][/\ (checkCalled /\ ~(lastCall'.id < Len(borrowerRequests)))
          => lastCall'.err = ErrInvalidRequest /\ ledger' = ledger
     /\ (/\ checkCalled
         /\ lastCall'.id < Len(borrowerRequests)
         /\ ~requestAt(lastCall'.id).isActive)
          => lastCall'.err = ErrInactiveRequest /\ ledger' = ledger
     /\ comparisonResults' # comparisonResults
          => /\ checkSucceeded
             /\ requestAt(lastCall'.id).isActive]_vars

\* After the request was closed a principal that had no result asked for
\* one and was refused; the result another principal got earlier remains.
C18_Witness ==
  /\ lastCall.op = "checkScoreMatch"
  /\ lastCall.err = ErrInactiveRequest
  /\ getComparisonResult(lastCall.id, lastCall.minScore, lastCall.sender)
       = EmptyHandle
  /\ \E p \in Principals :
       getComparisonResult(lastCall.id, lastCall.minScore, p) # EmptyHandle

\* C19: a successful checkScoreMatch(requestId, t) on a request with
\* plaintext score s returns a handle, the one it caches for the caller,
\* whose plaintext is 1 when s >= t and 0 when s < t.
C19_ComparisonDecrypts ==
  [][checkSucceeded =>
       LET s == plaintextOf(requestAt(lastCall'.id).encryptedScore)
           t == lastCall'.minScore
       IN /\ lastCall'.ret # EmptyHandle
          /\ getComparisonResult(lastCall.id, lastCall.minScore,
                                 lastCall.sender)' = lastCall'.ret
          /\ s >= t => ciphertexts'[lastCall'.ret] = 1
          /\ s < t => ciphertexts'[lastCall'.ret] = 0]_vars

\* The threshold equals the score and the result decrypts to true.
C19_Witness ==
  /\ lastCall.op = "checkScoreMatch"
  /\ lastCall.err = OK
  /\ lastCall.minScore = plaintextOf(requestAt(lastCall.id).encryptedScore)
  /\ plaintextOf(lastCall.ret) = 1

\* C20: a successful checkScoreMatch leaves exactly one entry under its key
\* (requestId, threshold, caller), the handle it returned, adds no other
\* key and changes no other entry; no other step changes the cache.
C20_OneEntryPerKey ==
  [][/\ checkSucceeded =>
          LET key == <<lastCall'.id, lastCall'.minScore, lastCall'.sender>>
          IN /\ DOMAIN comparisonResults'
                  = DOMAIN comparisonResults \cup {key}
             /\ getComparisonResult(lastCall.id, lastCall.minScore,
                                    lastCall.sender)' = lastCall'.ret
             /\ lastCall'.ret # EmptyHandle
             /\ \A k \in DOMAIN comparisonResults :
                  k # key => comparisonResults'[k] = comparisonResults[k]
     /\ ~checkSucceeded => comparisonResults' = comparisonResults]_vars

\* Both principals asked the same question; each has an entry of its own.
C20_Witness ==
  /\ lastCall.op = "checkScoreMatch"
  /\ lastCall.err = OK
  /\ Cardinality(DOMAIN comparisonResults) = 2
  /\ \A p \in Principals :
       getComparisonResult(lastCall.id, lastCall.minScore, p) = lastCall.ret
-----------------------------------------------------------------------------
\* The handle checkScoreMatch computes for a request and a threshold.
comparisonOf(requestId, minScore) ==
  geHandle(requestAt(requestId).encryptedScore, trivialHandle(minScore))

\* C21: a successful checkScoreMatch stores its result under the key of its
\* caller and leaves every entry of every other principal in place and
\* unchanged; and in every reachable state the cache writes of two different
\* principals on the same active request give the same cache in either
\* order, with each principal's result under its own key.
C21_ChecksIndependent ==
  /\ [][checkSucceeded =>
          LET key == <<lastCall'.id, lastCall'.minScore, lastCall'.sender>>
          IN /\ key \in DOMAIN comparisonResults'
             /\ comparisonResults'[key] = lastCall'.ret
             /\ \A k \in DOMAIN comparisonResults :
                  k[3] # lastCall'.sender
                    => /\ k \in DOMAIN comparisonResults'
                       /\ comparisonResults'[k] = comparisonResults[k]]_vars
  /\ [](\A r \in 0 .. Len(borrowerRequests) - 1 :
        \A p \in Principals, q \in Principals :
        \A m1 \in BoundaryMinScores, m2 \in BoundaryMinScores :
          (requestAt(r).isActive /\ p # q)
            => LET hp == comparisonOf(r, m1)
                   hq == comparisonOf(r, m2)
                   pq == storeComparison(
                           storeComparison(comparisonResults, r, m1, p, hp),
                           r, m2, q, hq)
                   qp == storeComparison(
                           storeComparison(comparisonResults, r, m2, q, hq),
                           r, m1, p, hp)
               IN /\ pq = qp
                  /\ <<r, m1, p>> \in DOMAIN pq
                  /\ pq[<<r, m1, p>>] = hp
                  /\ <<r, m2, q>> \in DOMAIN pq
                  /\ pq[<<r, m2, q>>] = hq
                  /\ \A k \in DOMAIN comparisonResults :
                       k \notin {<<r, m1, p>>, <<r, m2, q>>}
                         => k \in DOMAIN pq /\ pq[k] = comparisonResults[k])

\* bob asked about a request after alice had; alice's entry is still there.
C21_Witness ==
  /\ lastCall.op = "checkScoreMatch"
  /\ lastCall.err = OK
  /\ lastCall.sender = "bob"
  /\ <<lastCall.id, lastCall.minScore, "alice">> \in DOMAIN comparisonResults
  /\ <<lastCall.id, lastCall.minScore, "bob">> \in DOMAIN comparisonResults
\* C22: getComparisonResult never reverts and writes nothing; for a key no
\* checkScoreMatch has written, in particular for a request id that is not
\* below the request count, it returns the zero handle, and for a written
\* key the handle stored under it.
C22_GetComparisonResultTotal ==
  [][lastCall'.op = "getComparisonResult" =>
       LET key == <<lastCall'.id, lastCall'.minScore, lastCall'.caller>>
       IN /\ lastCall'.err = OK
          /\ ledger' = ledger
          /\ blockTimestamp' = blockTimestamp
          /\ key \notin DOMAIN comparisonResults
               => lastCall'.ret = EmptyHandle
          /\ key \in DOMAIN comparisonResults
               => lastCall'.ret = comparisonResults[key]
          /\ ~(lastCall'.id < Len(borrowerRequests))
               => lastCall'.ret = EmptyHandle]_vars

\* The cache holds a result and the lookup of a request id that indexes no
\* request returned the zero handle.
C22_Witness ==
  /\ lastCall.op = "getComparisonResult"
  /\ lastCall.err = OK
  /\ ~(lastCall.id < Len(borrowerRequests))
  /\ lastCall.ret = EmptyHandle
  /\ DOMAIN comparisonResults # {}
C24_ScoreForBorrowerOnly ==
  \A r \in 0 .. Len(borrowerRequests) - 1 :
    \A p \in Principals \cup {THIS} :
      isAllowed(requestAt(r).encryptedScore, p)
        <=> p \in {THIS, requestAt(r).borrower}

\* bob asked about alice's request, made an offer on it and alice accepted
\* it: bob may decrypt the answer but not the score, alice may decrypt the
\* score.
C24_Witness ==
  /\ Len(loans) = 1
  /\ loans[1].borrower = "alice"
  /\ loans[1].lender = "bob"
  /\ isAllowed(comparisonOf(0, 700), "bob")
  /\ ~isAllowed(requestAt(0).encryptedScore, "bob")
  /\ isAllowed(requestAt(0).encryptedScore, "alice")
\* What a principal learns by decrypting: the plaintext of every handle it
\* is allowed to decrypt.
decrypted(p, plaintexts) ==
  [h \in {h \in DOMAIN ciphertexts : isAllowed(h, p)} |-> plaintexts[h]]

\* The plaintexts the coprocessor would hold had the score of request r been
\* s: the score itself and every comparison computed from it.
withScore(r, s) ==
  [h \in DOMAIN ciphertexts |->
     IF h = requestAt(r).encryptedScore THEN s
     ELSE IF \E m \in ReadMinScores : h = comparisonOf(r, m)
          THEN fheGe(s, CHOOSE m \in ReadMinScores : h = comparisonOf(r, m))
          ELSE ciphertexts[h]]

\* Scores a request may carry.
CandidateScores == {0, 300, 700, 749, 750, 751, 800, 850, 1000}

\* C25: in every reachable state, for every request and every principal
\* other than its borrower, some other score of the request would have left
\* the principal with the same decrypted values: what the principal can
\* decrypt does not determine the score.  (The ids, records and handles the
\* operations return do not depend on a plaintext.)
C25_ScoreNotDetermined ==
  \A r \in 0 .. Len(borrowerRequests) - 1 :
    \A p \in Principals :
      p # requestAt(r).borrower
        => \E s \in CandidateScores :
             /\ s # plaintextOf(requestAt(r).encryptedScore)
             /\ decrypted(p, withScore(r, s)) = decrypted(p, ciphertexts)
offerSucceeded == offerCalled /\ lastCall'.err = OK

borrowSucceeded == borrowCalled /\ lastCall'.err = OK

\* C26: a successful submitBorrowerRequest, submitLenderOffer or
\* acceptLoanOffer gives its record the id equal to the count of its
\* collection before the call, stores the record at that id and raises the
\* count by one; no step lowers the count of requests, offers or loans.
C26_DenseIds ==
  [][/\ borrowSucceeded =>
          /\ lastCall'.ret = getBorrowerRequestsCount
          /\ getBorrowerRequestsCount' = getBorrowerRequestsCount + 1
          /\ borrowerRequests'[lastCall'.ret + 1].borrower = lastCall'.sender
     /\ offerSucceeded =>
          /\ lastCall'.ret = getLenderOffersCount
          /\ getLenderOffersCount' = getLenderOffersCount + 1
          /\ lenderOffers'[lastCall'.ret + 1].lender = lastCall'.sender
     /\ acceptSucceeded =>
          /\ lastCall'.ret = getLoansCount
          /\ getLoansCount' = getLoansCount + 1
          /\ loans'[lastCall'.ret + 1].borrower = lastCall'.sender
     /\ getBorrowerRequestsCount' >= getBorrowerRequestsCount
     /\ getLenderOffersCount' >= getLenderOffersCount
     /\ getLoansCount' >= getLoansCount]_vars

\* The second loan got id 1, made from the second offer, on the second
\* request.
C26_Witness ==
  /\ lastCall.op = "acceptLoanOffer"
  /\ lastCall.err = OK
  /\ lastCall.ret = 1
  /\ getLoansCount = 2
  /\ getLenderOffersCount = 2
  /\ getBorrowerRequestsCount = 2
\* C27: getBorrowerRequest, getEncryptedScore, getLenderOffer and getLoan
\* revert with the "Invalid ... ID" reason of their collection, and return
\* nothing, for an id that is not below the count of the collection, also
\* when the collection is empty; for an id below the count they succeed and
\* return the stored fields of the record with that id (the request in two
\* parts: getBorrowerRequest all fields but the score handle, and
\* getEncryptedScore the score handle).
C27_GettersNotFound ==
  [][/\ lastCall'.op = "getBorrowerRequest" =>
          IF lastCall'.id < getBorrowerRequestsCount
          THEN LET request == requestAt(lastCall'.id)
               IN /\ lastCall'.err = OK
                  /\ lastCall'.ret = <<request.borrower, request.amount,
                                       request.term, request.isActive>>
          ELSE lastCall'.err = ErrInvalidRequest /\ lastCall'.ret = <<>>
     /\ lastCall'.op = "getEncryptedScore" =>
          IF lastCall'.id < getBorrowerRequestsCount
          THEN /\ lastCall'.err = OK
               /\ lastCall'.ret = requestAt(lastCall'.id).encryptedScore
               /\ lastCall'.ret # EmptyHandle
          ELSE lastCall'.err = ErrInvalidRequest /\ lastCall'.ret = <<>>
     /\ lastCall'.op = "getLenderOffer" =>
          IF lastCall'.id < getLenderOffersCount
          THEN LET offer == offerAt(lastCall'.id)
               IN /\ lastCall'.err = OK
                  /\ lastCall'.ret = <<offer.lender, offer.borrowerRequestId,
                                       offer.amount, offer.apr, offer.term,
                                       offer.isActive>>
          ELSE lastCall'.err = ErrInvalidOffer /\ lastCall'.ret = <<>>
     /\ lastCall'.op = "getLoan" =>
          IF lastCall'.id < getLoansCount
          THEN LET loan == loanAt(lastCall'.id)
               IN /\ lastCall'.err = OK
                  /\ lastCall'.ret = <<loan.borrower, loan.lender,
                                       loan.amount, loan.apr, loan.term,
                                       loan.startTime, loan.isActive,
                                       loan.isRepaid>>
          ELSE lastCall'.err = ErrInvalidLoan /\ lastCall'.ret = <<>>
     /\ lastCall'.op \in {"getBorrowerRequest", "getEncryptedScore",
                          "getLenderOffer", "getLoan"}
          => ledger' = ledger]_vars

\* With one loan on the ledger, getLoan of id 1 was refused.
C27_Witness ==
  /\ lastCall.op = "getLoan"
  /\ lastCall.id = 1
  /\ getLoansCount = 1
  /\ lastCall.err = ErrInvalidLoan
  /\ getLoan(0)[1] = OK
\* The four preconditions of acceptLoanOffer on the ledger: the offer
\* exists and is active, its request is active, the caller is the borrower
\* of the request.
acceptable(sender, offerId) ==
  /\ offerId < Len(lenderOffers)
  /\ offerAt(offerId).isActive
  /\ requestAt(requestOf(offerId)).isActive
  /\ requestAt(requestOf(offerId)).borrower = sender

\* C28, as claimed: acceptLoanOffer succeeds exactly when the offer exists
\* and is active, its request is active and the caller is the borrower of
\* the request, and fails with no other reason than the four of these
\* preconditions.
C28_FourPreconditions ==
  [][acceptCalled =>
       /\ lastCall'.err = OK <=> acceptable(lastCall'.sender, lastCall'.id)
       /\ lastCall'.err \in {OK, ErrInvalidOffer, ErrInactiveOffer,
                             ErrRequestClosed, ErrNotBorrower}]_vars

\* C28, amended: acceptLoanOffer succeeds exactly when the four
\* preconditions hold and the call carries no ether; a call that meets the
\* four preconditions and carries ether fails with "Do not send ETH
\* directly"; the reasons of the four preconditions and this one are the
\* only failures.
C28_FourPreconditionsAndNoValue ==
  [][acceptCalled =>
       /\ lastCall'.err = OK
            <=> (acceptable(lastCall'.sender, lastCall'.id)
                 /\ lastCall'.value = 0)
       /\ (acceptable(lastCall'.sender, lastCall'.id) /\ lastCall'.value # 0)
            => lastCall'.err = ErrValue
       /\ lastCall'.err = ErrValue
            => acceptable(lastCall'.sender, lastCall'.id)
       /\ lastCall'.err \in {OK, ErrInvalidOffer, ErrInactiveOffer,
                             ErrRequestClosed, ErrNotBorrower, ErrValue}]_vars

\* The borrower accepted an active offer on her active request with ether
\* attached, and the call failed.
C28_Witness ==
  /\ lastCall.op = "acceptLoanOffer"
  /\ lastCall.value # 0
  /\ lastCall.err = ErrValue
  /\ acceptable(lastCall.sender, lastCall.id)
  /\ getLoansCount = 0
\* Offers that reference a request.
offersOn(requestId) ==
  {i \in DOMAIN lenderOffers : lenderOffers[i].borrowerRequestId = requestId}

\* C29: a submitLenderOffer with amount, apr and term in range on an
\* existing active request succeeds whatever offers already reference the
\* request and whoever made them; it leaves every earlier offer as it was,
\* the new offer is active and the request stays active.
C29_OffersDoNotExclude ==
  [][(/\ offerCalled
      /\ lastCall'.id < Len(borrowerRequests)
      /\ requestAt(lastCall'.id).isActive
      /\ lastCall'.amount > 0
      /\ lastCall'.apr >= 1
      /\ lastCall'.apr <= 10000
      /\ lastCall'.term >= 1
      /\ lastCall'.term <= 120)
     => /\ lastCall'.err = OK
        /\ Len(lenderOffers') = Len(lenderOffers) + 1
        /\ \A i \in DOMAIN lenderOffers : lenderOffers'[i] = lenderOffers[i]
        /\ lenderOffers'[Len(lenderOffers')].isActive
        /\ lenderOffers'[Len(lenderOffers')].lender = lastCall'.sender
        /\ lenderOffers'[Len(lenderOffers')].borrowerRequestId = lastCall'.id
        /\ borrowerRequests'[lastCall'.id + 1].isActive]_vars

\* The third offer on one request succeeded; the request has active offers
\* of both lenders, two of them of the same lender.
C29_Witness ==
  /\ lastCall.op = "submitLenderOffer"
  /\ lastCall.err = OK
  /\ Cardinality(offersOn(lastCall.id)) = 3
  /\ \A i \in offersOn(lastCall.id) : lenderOffers[i].isActive
  /\ {lenderOffers[i].lender : i \in offersOn(lastCall.id)} = Principals
\* C30: acceptLoanOffer reports the first failure in the order offer id out
\* of range, offer not active, request not active, caller not the borrower,
\* whatever else is wrong with the call: a closed offer is reported before
\* its closed request, and a closed request before a caller that is not its
\* borrower.
C30_AcceptCheckOrder ==
  [][acceptCalled =>
       LET inRange == lastCall'.id < Len(lenderOffers)
           offerActive == offerAt(lastCall'.id).isActive
           request == requestAt(requestOf(lastCall'.id))
       IN /\ ~inRange => lastCall'.err = ErrInvalidOffer
          /\ (inRange /\ ~offerActive) => lastCall'.err = ErrInactiveOffer
          /\ (inRange /\ offerActive /\ ~request.isActive)
               => lastCall'.err = ErrRequestClosed
          /\ (/\ inRange
              /\ offerActive
              /\ request.isActive
              /\ request.borrower # lastCall'.sender)
               => lastCall'.err = ErrNotBorrower]_vars

\* A principal that is not the borrower tried the active sibling of an
\* accepted offer and was told that the request is closed.
C30_Witness ==
  /\ lastCall.op = "acceptLoanOffer"
  /\ lastCall.err = ErrRequestClosed
  /\ offerAt(lastCall.id).isActive
  /\ requestAt(requestOf(lastCall.id)).borrower # lastCall.sender
  /\ getLoansCount = 1
  /\ requestOf(acceptedOffers[1]) = requestOf(lastCall.id)
-----------------------------------------------------------------------------
\* Two requests, or two offers, that differ at most in the isActive flag.
sameRequest(a, b) ==
  /\ a.borrower = b.borrower
  /\ a.encryptedScore = b.encryptedScore
  /\ a.amount = b.amount
  /\ a.term = b.term

sameOffer(a, b) ==
  /\ a.lender = b.lender
  /\ a.borrowerRequestId = b.borrowerRequestId
  /\ a.amount = b.amount
  /\ a.apr = b.apr
  /\ a.term = b.term

\* C31: no step shortens the requests, the offers or the loans; every
\* request and every offer that exists before a step is at the same id
\* after it with the same fields, the isActive flag apart (borrower,
\* encryptedScore, amount and term of a request; lender, borrowerRequestId,
\* amount, apr and term of an offer); every loan that exists before a step
\* is at the same id after it with all its fields.  (A step that leaves a
\* list as it is satisfies this for that list.)
C31_AppendOnly ==
  [][/\ borrowerRequests' # borrowerRequests
          => /\ Len(borrowerRequests') >= Len(borrowerRequests)
             /\ \A i \in DOMAIN borrowerRequests :
                  sameRequest(borrowerRequests'[i], borrowerRequests[i])
     /\ lenderOffers' # lenderOffers
          => /\ Len(lenderOffers') >= Len(lenderOffers)
             /\ \A i \in DOMAIN lenderOffers :
                  sameOffer(lenderOffers'[i], lenderOffers[i])
     /\ loans' # loans
          => /\ Len(loans') >= Len(loans)
             /\ \A i \in DOMAIN loans : loans'[i] = loans[i]]_vars

\* A second loan was made: the first loan, the closed request and the
\* closed offer of the first acceptance are where they were, with their
\* fields.
C31_Witness ==
  /\ lastCall.op = "acceptLoanOffer"
  /\ lastCall.err = OK
  /\ lastCall.ret = 1
  /\ offerAt(acceptedOffers[1]).lender = loanAt(0).lender
  /\ offerAt(acceptedOffers[1]).amount = 4000
  /\ ~offerAt(acceptedOffers[1]).isActive
  /\ requestAt(requestOf(acceptedOffers[1])).amount = 5000
  /\ requestAt(requestOf(acceptedOffers[1])).encryptedScore # EmptyHandle
inactiveRequests ==
  {i \in DOMAIN borrowerRequests : ~borrowerRequests[i].isActive}

inactiveOffers == {i \in DOMAIN lenderOffers : ~lenderOffers[i].isActive}

\* C32: in every reachable state the number of loans is the number of
\* closed requests and the number of closed offers; every closed request
\* is referenced by exactly one closed offer; no closed offer references an
\* active request.
C32_LoansMatchClosedRecords ==
  /\ getLoansCount = Cardinality(inactiveRequests)
  /\ getLoansCount = Cardinality(inactiveOffers)
  /\ \A i \in inactiveRequests :
       Cardinality({j \in inactiveOffers :
                      lenderOffers[j].borrowerRequestId = i - 1}) = 1
  /\ \A j \in inactiveOffers :
       ~requestAt(lenderOffers[j].borrowerRequestId).isActive

\* One loan: its request is closed and has a closed and an active offer;
\* another request is active.
C32_Witness ==
  /\ getLoansCount = 1
  /\ getBorrowerRequestsCount = 2
  /\ Cardinality(inactiveRequests) = 1
  /\ \E j \in DOMAIN lenderOffers :
       /\ lenderOffers[j].isActive
       /\ ~requestAt(lenderOffers[j].borrowerRequestId).isActive
\* C33: in every reachable state every loan has isActive true and isRepaid
\* false.
C33_LoansOpen ==
  \A i \in DOMAIN loans : loans[i].isActive /\ ~loans[i].isRepaid

\* Two loans exist, and the offer of one of them was tried again, in vain;
\* both loans are active and not repaid.
C33_Witness ==
  /\ getLoansCount = 2
  /\ lastCall.op = "acceptLoanOffer"
  /\ lastCall.err = ErrInactiveOffer
  /\ lastCall.id \in Range(acceptedOffers)
  /\ loanAt(0).isActive /\ ~loanAt(0).isRepaid
  /\ loanAt(1).isActive /\ ~loanAt(1).isRepaid
\* C34: in every reachable state, whenever getComparisonResult of a
\* request, a threshold and a principal is not the zero handle, that
\* principal is allowed to decrypt the handle, and the handle has a
\* ciphertext.
C34_CachedMeansGranted ==
  \A r \in RequestIds, m \in MinScores, p \in Principals :
    LET h == getComparisonResult(r, m, p)
    IN h # EmptyHandle => isAllowed(h, p) /\ h \in DOMAIN ciphertexts

\* The cache holds an entry of alice on bob's request and none of bob on
\* it: alice may decrypt the result, bob may not.
C34_Witness ==
  /\ lastCall.op = "checkScoreMatch"
  /\ lastCall.err = OK
  /\ lastCall.sender = "alice"
  /\ requestAt(lastCall.id).borrower = "bob"
  /\ getComparisonResult(lastCall.id, lastCall.minScore, "alice")
       = lastCall.ret
  /\ getComparisonResult(lastCall.id, lastCall.minScore, "bob") = EmptyHandle
  /\ isAllowed(lastCall.ret, "alice")
  /\ ~isAllowed(lastCall.ret, "bob")
\* C35: a successful checkScoreMatch leaves the requests, the offers, the
\* loans and every cache entry under another key as they were; the grants
\* it adds are on the handle it returns, to the contract and to the caller,
\* and it removes none; the ciphertexts that exist keep their plaintexts.
C35_CheckFrame ==
  [][checkSucceeded =>
       LET key == <<lastCall'.id, lastCall'.minScore, lastCall'.sender>>
       IN /\ borrowerRequests' = borrowerRequests
          /\ lenderOffers' = lenderOffers
          /\ loans' = loans
          /\ nextLoanId' = nextLoanId
          /\ \A k \in DOMAIN comparisonResults' : k # key =>
               /\ k \in DOMAIN comparisonResults
               /\ comparisonResults'[k] = comparisonResults[k]
          /\ \A k \in DOMAIN comparisonResults :
               k \in DOMAIN comparisonResults'
          /\ acl \subseteq acl'
          /\ acl' \ acl \subseteq {<<lastCall'.ret, THIS>>,
                                   <<lastCall'.ret, lastCall'.sender>>}
          /\ \A h \in DOMAIN ciphertexts :
               h \in DOMAIN ciphertexts' /\ ciphertexts'[h] = ciphertexts[h]]_vars

\* bob's check succeeded on a request that has an offer and a cached result
\* of alice.
C35_Witness ==
  /\ lastCall.op = "checkScoreMatch"
  /\ lastCall.err = OK
  /\ lastCall.sender = "bob"
  /\ offersOn(lastCall.id) # {}
  /\ requestAt(lastCall.id).isActive
  /\ getComparisonResult(lastCall.id, lastCall.minScore, "alice")
       # EmptyHandle
  /\ isAllowed(lastCall.ret, "bob")
\* The view functions.
ViewOps ==
  {"findMatches", "getComparisonResult", "getBorrowerRequestsCount",
   "getLenderOffersCount", "getLoansCount", "getBorrowerRequest",
   "getLenderOffer", "getLoan", "getEncryptedScore"}

\* C36: a call of findMatches, getComparisonResult, a count accessor,
\* getBorrowerRequest, getLenderOffer, getLoan or getEncryptedScore, whether
\* it returns or reverts, leaves the requests, the offers, the loans, the
\* cache, the grants and the ciphertexts as they were; each count accessor
\* succeeds and returns the length of its array.
C36_PureReads ==
  [][/\ lastCall'.op \in ViewOps
          => /\ borrowerRequests' = borrowerRequests
             /\ lenderOffers' = lenderOffers
             /\ loans' = loans
             /\ comparisonResults' = comparisonResults
             /\ acl' = acl
             /\ ciphertexts' = ciphertexts
             /\ nextLoanId' = nextLoanId
     /\ lastCall'.op = "getBorrowerRequestsCount"
          => lastCall'.err = OK /\ lastCall'.ret = Len(borrowerRequests)
     /\ lastCall'.op = "getLenderOffersCount"
          => lastCall'.err = OK /\ lastCall'.ret = Len(lenderOffers)
     /\ lastCall'.op = "getLoansCount"
          => lastCall'.err = OK /\ lastCall'.ret = Len(loans)]_vars

\* getLoansCount returned 1 on a ledger with a loan and a cached result.
C36_Witness ==
  /\ lastCall.op = "getLoansCount"
  /\ lastCall.ret = 1
  /\ Len(loans) = 1
  /\ DOMAIN comparisonResults # {}
  /\ acl # {}
\* Outcomes of a call that has ended.
Outcomes ==
  {OK, ErrAmount, ErrTerm, ErrProof, ErrInvalidRequest, ErrInactiveRequest,
   ErrApr, ErrInvalidOffer, ErrInactiveOffer, ErrRequestClosed,
   ErrNotBorrower, ErrValue}

\* C37: a call of submitBorrowerRequest, checkScoreMatch, submitLenderOffer
\* or acceptLoanOffer ends in the step that starts it, with success or with
\* a revert reason; a call of findMatches that has started returns, its
\* first loop after at most as many iterations as there are requests and
\* its second loop after at most as many as there are matches, and it
\* returns what findMatches is defined to return.
C37_CallsEnd ==
  /\ [](idle => lastCall.err \in Outcomes)
  /\ [](~idle =>
          /\ lastCall.op = "findMatches"
          /\ lastCall.ret.i <= Len(borrowerRequests)
          /\ lastCall.ret.matchCount <= lastCall.ret.i
          /\ lastCall.ret.j <= lastCall.ret.matchCount)
  /\ [][(~idle /\ idle') =>
          lastCall'.ret = findMatches(lastCall.minScore)]_vars
  /\ (~idle ~> idle)

\* findMatches returned <<1>> after running over a closed and an active
\* request.
C37_Witness ==
  /\ lastCall.op = "findMatches"
  /\ lastCall.err = OK
  /\ Len(borrowerRequests) = 2
  /\ ~requestAt(0).isActive
  /\ lastCall.ret = <<1>>
startTimesAscend ==
  \A i \in DOMAIN loans : \A j \in DOMAIN loans :
    i < j => timeLeq(loans[i].startTime, loans[j].startTime)

\* The step is a successful acceptLoanOffer: a loan is appended.
loanMade == Len(loans') = Len(loans) + 1

\* C38, as claimed: the startTime of a loan is the timestamp of the block
\* of the acceptLoanOffer that made it, and in every reachable state the
\* start times do not decrease with the loan id.
C38_StartTimeIsTimestamp ==
  /\ [][loanMade =>
          loans'[Len(loans')].startTime = blockTimestamp']_vars
  /\ []startTimesAscend

\* C38, amended: the startTime of a loan is the timestamp of the block of
\* the acceptLoanOffer that made it, modulo 2^32, and never changes; it is
\* the timestamp itself when the timestamp is below 2^32, and as long as
\* the clock of the chain is below 2^32 the start times do not decrease
\* with the loan id.
C38_StartTimeIsTimestampMod32 ==
  /\ [][/\ loanMade =>
             /\ loans'[Len(loans')].startTime = toUint32(blockTimestamp')
             /\ loans'[Len(loans')].startTime[1] =
                  blockTimestamp'[1] % 65536
             /\ loans'[Len(loans')].startTime[2] = blockTimestamp'[2]
             /\ blockTimestamp'[1] < 65536
                  => loans'[Len(loans')].startTime = blockTimestamp'
        /\ \A i \in DOMAIN loans :
             loans'[i].startTime = loans[i].startTime]_vars
  /\ [](blockTimestamp[1] < 65536 => startTimesAscend)

\* The second loan was made after the clock had passed 2^32: its startTime
\* is below the startTime of the first loan.
C38_Witness ==
  /\ lastCall.op = "acceptLoanOffer"
  /\ lastCall.err = OK
  /\ getLoansCount = 2
  /\ blockTimestamp[1] >= 65536
  /\ loanAt(1).startTime # blockTimestamp
  /\ ~timeLeq(loanAt(0).startTime, loanAt(1).startTime)
-----------------------------------------------------------------------------
\* The hook useTransactionHistory and the handlers that use it.
\*
\* localStorage is the stored history of the connected address (the parsed
\* JSON text under its key; the empty list also stands for no item),
\* transactions[i] the React state of the hook instance of component i, and
\* handler[i] the running async handler of component i: its position, the
\* transactions array that the addTransaction and updateTransaction it
\* closed over read, and the id addTransaction returned to it.  addedIds
\* holds every id that addTransaction has returned.

\* The entries a history keeps (the slice bound of addTransaction).
HistoryLimit == 100

\* At most this many transactions are recorded in a run.
MaxTransactions == 3

\* Offer ids a handler is started with.
AcceptedOfferIds == {0, 1}

\* A JavaScript value of a details field: a bigint, a string of its
\* decimal digits, or undefined.
Undefined == [t |-> "undefined", v |-> 0]

bigint(n) == [t |-> "bigint", v |-> n]

\* value?.toString() of a bigint or of undefined.
toString(b) == IF b.t = "bigint" THEN [t |-> "string", v |-> b.v]
               ELSE Undefined

\* value ? BigInt(value) : undefined, of a stored field: a string of
\* digits is truthy, a missing field is not.
BigInt(s) == IF s.t = "string" THEN [t |-> "bigint", v |-> s.v]
             ELSE Undefined

\* What saveTransactions writes to localStorage for a list.
serializable(newTransactions) ==
  [k \in DOMAIN newTransactions |->
     [newTransactions[k] EXCEPT !.offerId = toString(@)]]

\* What the load effect makes of the stored list.
converted(parsed) ==
  [k \in DOMAIN parsed |-> [parsed[k] EXCEPT !.offerId = BigInt(@)]]

\* Array.prototype.slice(0, n).
slice(s, n) == SubSeq(s, 1, IF Len(s) < n THEN Len(s) ELSE n)

\* { ...tx, ...updates }.
spread(tx, updates) ==
  [f \in DOMAIN tx |-> IF f \in DOMAIN updates THEN updates[f] ELSE tx[f]]

\* The list addTransaction saves, from the transactions array it closed over.
addTransaction(closed, newTransaction) ==
  slice(<<newTransaction>> \o closed, HistoryLimit)

\* The list updateTransaction saves, from the transactions array it closed
\* over.
updateTransaction(closed, id, updates) ==
  [k \in DOMAIN closed |->
     IF closed[k].id = id THEN spread(closed[k], updates) ELSE closed[k]]

\* The hash acceptLoanOffer resolves to for a transaction.
hashOf(id) == 100 + id

\* A component mounts (again): its hook instance loads the stored history.
MountStep ==
  \E i \in Instances :
    /\ transactions' = [transactions EXCEPT ![i] = converted(localStorage)]
    /\ UNCHANGED <<localStorage, handler, addedIds>>
    /\ UNCHANGED <<ledger, blockTimestamp, lastCall>>

\* A handler starts in the current render of its component: it records the
\* transaction as pending with the addTransaction of that render and then
\* awaits the wallet.
HandleAcceptStep ==
  \E i \in Instances, o \in AcceptedOfferIds :
    /\ handler[i].pc = "idle"
    /\ Cardinality(addedIds) < MaxTransactions
    /\ LET txId == Cardinality(addedIds) + 1
           newTransaction == [id |-> txId, status |-> "pending",
                              txHash |-> 0, error |-> "",
                              offerId |-> bigint(o)]
           updated == addTransaction(transactions[i], newTransaction)
       IN /\ localStorage' = serializable(updated)
          /\ transactions' = [transactions EXCEPT ![i] = updated]
          /\ handler' = [handler EXCEPT ![i] =
                           [pc |-> "awaitHash",
                            captured |-> transactions[i],
                            txId |-> txId]]
          /\ addedIds' = addedIds \cup {txId}
    /\ UNCHANGED <<ledger, blockTimestamp, lastCall>>

\* The wallet call resolves to a hash: the handler records it with the
\* updateTransaction it closed over, and awaits the receipt.
HashStep ==
  \E i \in Instances :
    /\ handler[i].pc = "awaitHash"
    /\ LET txId == handler[i].txId
           updated == updateTransaction(handler[i].captured, txId,
                                        [txHash |-> hashOf(txId)])
       IN /\ localStorage' = serializable(updated)
          /\ transactions' = [transactions EXCEPT ![i] = updated]
    /\ handler' = [handler EXCEPT ![i].pc = "awaitReceipt"]
    /\ UNCHANGED addedIds
    /\ UNCHANGED <<ledger, blockTimestamp, lastCall>>

\* The receipt arrives: the handler records the success.
ReceiptStep ==
  \E i \in Instances :
    /\ handler[i].pc = "awaitReceipt"
    /\ LET txId == handler[i].txId
           updated == updateTransaction(handler[i].captured, txId,
                                        [status |-> "success",
                                         txHash |-> hashOf(txId)])
       IN /\ localStorage' = serializable(updated)
          /\ transactions' = [transactions EXCEPT ![i] = updated]
    /\ handler' = [handler EXCEPT ![i].pc = "done"]
    /\ UNCHANGED addedIds
    /\ UNCHANGED <<ledger, blockTimestamp, lastCall>>

\* An await throws (the user rejects, the chain reverts): the catch block
\* records the failure.
CatchStep ==
  \E i \in Instances :
    /\ handler[i].pc \in {"awaitHash", "awaitReceipt"}
    /\ LET txId == handler[i].txId
           updated == updateTransaction(handler[i].captured, txId,
                                        [status |-> "failed",
                                         error |-> "Unknown error"])
       IN /\ localStorage' = serializable(updated)
          /\ transactions' = [transactions EXCEPT ![i] = updated]
    /\ handler' = [handler EXCEPT ![i].pc = "done"]
    /\ UNCHANGED addedIds
    /\ UNCHANGED <<ledger, blockTimestamp, lastCall>>

\* The handler returns.
FinallyStep ==
  \E i \in Instances :
    /\ handler[i].pc = "done"
    /\ handler' = [handler EXCEPT ![i] = noHandler]
    /\ UNCHANGED <<localStorage, transactions, addedIds>>
    /\ UNCHANGED <<ledger, blockTimestamp, lastCall>>

NextHistory ==
  \/ MountStep
  \/ HandleAcceptStep
  \/ HashStep
  \/ ReceiptStep
  \/ CatchStep
  \/ FinallyStep

SpecHistory == Init /\ [][NextHistory]_vars

\* A list holds a transaction of this id.
recorded(txs, id) == \E k \in DOMAIN txs : txs[k].id = id

\* C39: a transaction recorded by addTransaction is not lost by a later
\* updateTransaction on its id.  When a handler that has added a transaction
\* applies an update with the updateTransaction it closed over before the
\* add, the stored history afterwards holds its transaction with the update
\* applied (the hash when it goes on to await the receipt, the final status
\* when it is done), and every transaction that was stored before the
\* update, whichever hook instance added it, is still stored.
C39_UpdateKeepsTransaction ==
  [][\A i \in Instances :
       (handler[i].pc \in {"awaitHash", "awaitReceipt"}
          /\ handler'[i].pc # handler[i].pc)
         => LET before == converted(localStorage)
                after == converted(localStorage')
                txId == handler[i].txId
            IN /\ \E k \in DOMAIN after :
                    /\ after[k].id = txId
                    /\ handler'[i].pc = "awaitReceipt"
                         => after[k].txHash = hashOf(txId)
                    /\ handler'[i].pc = "done"
                         => after[k].status \in {"success", "failed"}
               /\ \A id \in addedIds :
                    recorded(before, id) => recorded(after, id)]_vars
====
